---- MODULE Spec2Model ----
(***************************************************************************)
(* Railway network of datastructures.cc / datastructures.hh: the station   *)
(* and train registries, the edges add_train derives from a train's stop   *)
(* list, and the route queries that search those edges using the scratch   *)
(* fields (color, d, de, pi) embedded in every Station record.             *)
(***************************************************************************)
EXTENDS Integers, Sequences, FiniteSets, TLC

VARIABLES stations,   \* std::unordered_map<StationID, Station> stations
          addr,       \* address of each Station node (orders Station* values)
          trains,     \* std::unordered_map<TrainID, Train> trains
          op,         \* the last operation called, with its arguments
          ret,        \* what that operation returned
          nq,         \* number of route queries made so far
          regions     \* std::unordered_map<RegionID, Region> regions

vars == <<stations, addr, trains, op, ret, nq, regions>>

-----------------------------------------------------------------------------
(* Sentinels and literals of the source *)

NO_STATION == "---"
NO_NAME == "!NO_NAME!"
\* (RegionID) -1, the largest unsigned long long; kept as -1, it is only compared
NO_REGION == -1
NO_TIME == 9999
\* std::numeric_limits<int>::min()
NO_VALUE == -2147483647 - 1
NO_DISTANCE == NO_VALUE
NO_COORD == <<NO_VALUE, NO_VALUE>>
\* the literal 999999 that the route queries use as "infinite" d / de
INF_D == 999999
\* Time tracker = 2500 in route_earliest_arrival
TRACKER_INIT == 2500
\* Time is unsigned short: a value stored in a Time is reduced modulo 2^16
TIME_MOD == 65536
\* Station* pi = nullptr
NULL == "nullptr"
\* a walk along pi that comes back to a station already on the path never ends
DIVERGES == <<"diverges">>
\* what ret holds when route_earliest_arrival never returns
NO_RETURN == << <<"diverges", NO_TIME>> >>

ToTime(x) == x % TIME_MOD

-----------------------------------------------------------------------------
(* Bounds of the model *)

\* most route queries in one behaviour of the specifications that query once
MaxQueries == 1
\* most stops in a stop list passed to add_train
MaxStops == 3
\* most route queries in one behaviour of the specification that queries repeatedly
MaxHistory == 2
\* most edges of the network in the specification that clears the trains
MaxEdges == 3

-----------------------------------------------------------------------------
(* Helpers *)

Reverse(s) == [i \in 1..Len(s) |-> s[Len(s) + 1 - i]]

Abs(x) == IF x < 0 THEN -x ELSE x

\* (int) sqrt(hi^2 + lo^2) for hi >= lo >= 0: the root is hi + k for the
\* largest k with (hi + k)^2 <= hi^2 + lo^2, that is k * (2*hi + k) <= lo^2;
\* stated with a quotient, so that only lo^2 has to fit the integers
hypot_int(hi, lo) ==
    IF lo = 0 THEN hi
    ELSE hi + Cardinality({k \in 1..lo : k <= (lo * lo) \div (2 * hi + k)})

\* Distance Datastructures::distance_between_points(Coord a, Coord b):
\* sqrt(dx^2 + dy^2) cut to an int (the double holds these values exactly)
distance_between_points(a, b) ==
    LET dx == Abs(a[1] - b[1])
        dy == Abs(a[2] - b[2])
    IN  IF dx >= dy THEN hypot_int(dx, dy) ELSE hypot_int(dy, dx)

\* all sequences over S of length 0..n
RECURSIVE SeqsUpTo(_, _)
SeqsUpTo(S, n) ==
    IF n = 0 THEN {<<>>}
    ELSE LET shorter == SeqsUpTo(S, n - 1)
         IN  shorter \cup {Append(s, x) : s \in {t \in shorter : Len(t) = n - 1}, x \in S}

-----------------------------------------------------------------------------
(* Station registry *)

\* the Station that add_station inserts
NewStation(id, name, xy) ==
    [id |-> id, name |-> name, location |-> xy, region |-> NO_REGION,
     departures |-> [t \in {} |-> {}], stations_to |-> <<>>,
     color |-> 0, d |-> INF_D, de |-> INF_D, pi |-> NULL]

\* addresses a new Station node can get: any not held by a live node
FreeAddrs(Addrs) == Addrs \ {addr[s] : s \in DOMAIN addr}

\* add_station_run storing the new record also over a station that has the id
add_station_run_overwrites(st, ad, id, name, xy, a) ==
    IF id # NO_STATION /\ name # NO_NAME /\ xy # NO_COORD
    THEN [stations |-> [s \in DOMAIN st \cup {id} |->
                           IF s = id THEN NewStation(id, name, xy) ELSE st[s]],
          addr |-> [s \in DOMAIN ad \cup {id} |-> IF s \in DOMAIN ad THEN ad[s] ELSE a],
          ret |-> id \notin DOMAIN st]
    ELSE [stations |-> st, addr |-> ad, ret |-> FALSE]

\* the registry after add_station(id, name, xy), with what it returns;
\* a is the address the allocator gives the new node
add_station_run(st, ad, id, name, xy, a) ==
    IF id \notin DOMAIN st /\ id # NO_STATION /\ name # NO_NAME /\ xy # NO_COORD
    THEN [stations |-> st @@ (id :> NewStation(id, name, xy)),
          addr |-> ad @@ (id :> a), ret |-> TRUE]
    ELSE [stations |-> st, addr |-> ad, ret |-> FALSE]

\* bool Datastructures::add_station(StationID id, const Name& name, Coord xy)
add_station(id, name, xy, a) ==
    /\ op' = [name |-> "add_station", args |-> <<id, name, xy>>]
    /\ LET r == add_station_run(stations, addr, id, name, xy, a)
       IN  stations' = r.stations /\ addr' = r.addr /\ ret' = r.ret
    /\ UNCHANGED <<trains, nq, regions>>

\* what station_count() returns
station_count_run(st) == Cardinality(DOMAIN st)

\* unsigned int Datastructures::station_count()
station_count ==
    /\ op' = [name |-> "station_count", args |-> <<>>]
    /\ ret' = station_count_run(stations)
    /\ UNCHANGED <<stations, addr, trains, nq, regions>>

\* what get_station_name(id) returns
get_station_name_run(st, id) ==
    IF id \in DOMAIN st /\ id # NO_STATION THEN st[id].name ELSE NO_NAME

\* Name Datastructures::get_station_name(StationID id)
get_station_name(id) ==
    /\ op' = [name |-> "get_station_name", args |-> <<id>>]
    /\ ret' = get_station_name_run(stations, id)
    /\ UNCHANGED <<stations, addr, trains, nq, regions>>

\* what get_station_coordinates(id) returns
get_station_coordinates_run(st, id) ==
    IF id \in DOMAIN st /\ id # NO_STATION THEN st[id].location ELSE NO_COORD

\* Coord Datastructures::get_station_coordinates(StationID id)
get_station_coordinates(id) ==
    /\ op' = [name |-> "get_station_coordinates", args |-> <<id>>]
    /\ ret' = get_station_coordinates_run(stations, id)
    /\ UNCHANGED <<stations, addr, trains, nq, regions>>

\* the departures map after add_departure(stationid, trainid, time) on a known station
departures_added(deps, trainid, time) ==
    IF time \in DOMAIN deps
    THEN [deps EXCEPT ![time] = deps[time] \cup {trainid}]
    ELSE deps @@ (time :> {trainid})

\* bool Datastructures::add_departure(StationID stationid, TrainID trainid, Time time)
\* as a function of the registry: the registry afterwards
add_departure_to(st, stationid, trainid, time) ==
    IF stationid \in DOMAIN st
    THEN [st EXCEPT ![stationid].departures = departures_added(@, trainid, time)]
    ELSE st

-----------------------------------------------------------------------------
(* Network builder *)

\* the validation loop of add_train: every stop names a registered station
all_stops_known(st, stationtimes) ==
    \A i \in 1..Len(stationtimes) : stationtimes[i][1] \in DOMAIN st

\* add_train_stop with the edge's arrival taken from the stop it leaves
add_train_stop_wrong_arrival(st, trainid, stationtimes, i) ==
    IF i < Len(stationtimes)
    THEN LET here == stationtimes[i]
             next == stationtimes[i + 1]
             st1  == add_departure_to(st, here[1], trainid, here[2])
             edge == [dep |-> here[2], arr |-> here[2], to |-> next[1]]
         IN  [st1 EXCEPT ![here[1]].stations_to = Append(@, edge)]
    ELSE st

\* one iteration of the second loop of add_train, for the stop at index i
add_train_stop(st, trainid, stationtimes, i) ==
    IF i < Len(stationtimes)
    THEN LET here == stationtimes[i]
             next == stationtimes[i + 1]
             st1  == add_departure_to(st, here[1], trainid, here[2])
             edge == [dep |-> here[2], arr |-> next[2], to |-> next[1]]
         IN  [st1 EXCEPT ![here[1]].stations_to = Append(@, edge)]
    ELSE st

RECURSIVE add_train_stops(_, _, _, _)
\* the second loop of add_train from index i on
add_train_stops(st, trainid, stationtimes, i) ==
    IF i > Len(stationtimes) THEN st
    ELSE add_train_stops(add_train_stop(st, trainid, stationtimes, i),
                         trainid, stationtimes, i + 1)

RECURSIVE known_prefix(_, _, _)
\* the stops of stationtimes before the first one at an unregistered station
known_prefix(st, stationtimes, i) ==
    IF i > Len(stationtimes) \/ stationtimes[i][1] \notin DOMAIN st
    THEN SubSeq(stationtimes, 1, i - 1)
    ELSE known_prefix(st, stationtimes, i + 1)

\* add_train_run validating each stop only when its turn comes: the stops
\* before an unknown station have left their departures and edges behind
add_train_run_validate_late(st, tr, trainid, stationtimes) ==
    IF trainid \in DOMAIN tr THEN [stations |-> st, trains |-> tr, ret |-> FALSE]
    ELSE IF ~all_stops_known(st, stationtimes)
    THEN [stations |-> add_train_stops(st, trainid, known_prefix(st, stationtimes, 1), 1),
          trains |-> tr, ret |-> FALSE]
    ELSE [stations |-> add_train_stops(st, trainid, stationtimes, 1),
          trains |-> tr @@ (trainid :> [id |-> trainid, stationtimes |-> stationtimes]),
          ret |-> TRUE]

\* add_train_run registering the train again when its id is registered already
add_train_run_registers_again(st, tr, trainid, stationtimes) ==
    IF ~all_stops_known(st, stationtimes) THEN [stations |-> st, trains |-> tr, ret |-> FALSE]
    ELSE [stations |-> add_train_stops(st, trainid, stationtimes, 1),
          trains |-> [t \in DOMAIN tr \cup {trainid} |->
                         IF t = trainid THEN [id |-> trainid, stationtimes |-> stationtimes]
                         ELSE tr[t]],
          ret |-> TRUE]

\* the registries after add_train(trainid, stationtimes), with what it returns
add_train_run(st, tr, trainid, stationtimes) ==
    IF trainid \in DOMAIN tr THEN [stations |-> st, trains |-> tr, ret |-> FALSE]
    ELSE IF ~all_stops_known(st, stationtimes) THEN [stations |-> st, trains |-> tr, ret |-> FALSE]
    ELSE [stations |-> add_train_stops(st, trainid, stationtimes, 1),
          trains |-> tr @@ (trainid :> [id |-> trainid, stationtimes |-> stationtimes]),
          ret |-> TRUE]

\* bool Datastructures::add_train(TrainID trainid, std::vector<std::pair<StationID, Time>> stationtimes)
add_train(trainid, stationtimes) ==
    /\ op' = [name |-> "add_train", args |-> <<trainid, stationtimes>>]
    /\ LET r == add_train_run(stations, trains, trainid, stationtimes)
       IN  stations' = r.stations /\ trains' = r.trains /\ ret' = r.ret
    /\ UNCHANGED <<addr, nq, regions>>

-----------------------------------------------------------------------------
(* Route engine: results and the scratch reset *)

\* {std::pair<StationID, Distance>(NO_STATION, NO_DISTANCE)}
NOT_FOUND_DISTANCE == << <<NO_STATION, NO_DISTANCE>> >>
\* {std::pair<StationID, Time>(NO_STATION, NO_TIME)}
NOT_FOUND_TIME == << <<NO_STATION, NO_TIME>> >>

\* a query's outcome: the registry with its scratch fields afterwards, and the value returned
Outcome(st, result) == [st |-> st, result |-> result]

\* std::queue::push
queue_push(Q, v) == Append(Q, v)

-----------------------------------------------------------------------------
(* route_any: breadth-first search, pi == nullptr marks "not discovered" *)

\* the reset of route_any leaving every pi as the query before left it
route_any_reset_keeps_pi(st, fromid) ==
    [s \in DOMAIN st |-> [st[s] EXCEPT !.d = IF s = fromid THEN 0 ELSE INF_D]]

\* the reset of route_any putting the region of every station back to NO_REGION as well
route_any_reset_forgets_region(st, fromid) ==
    [s \in DOMAIN st |->
        [st[s] EXCEPT !.d = IF s = fromid THEN 0 ELSE INF_D, !.pi = NULL,
                      !.region = NO_REGION]]

\* the reset loop of route_any, then s->d = 0
route_any_reset(st, fromid) ==
    [s \in DOMAIN st |->
        [st[s] EXCEPT !.d = IF s = fromid THEN 0 ELSE INF_D, !.pi = NULL]]

\* route_any_discover recording the parent's parent where there is one
route_any_discover_grandparent(st, u, v) ==
    [st EXCEPT ![v].d = st[u].d + distance_between_points(st[u].location, st[v].location),
               ![v].pi = IF st[u].pi = NULL THEN u ELSE st[u].pi]

\* the body of "if (it->second.second->pi == nullptr)" in route_any
route_any_discover(st, u, v) ==
    [st EXCEPT ![v].d = st[u].d + distance_between_points(st[u].location, st[v].location),
               ![v].pi = u]

RECURSIVE route_any_for(_, _, _, _, _)
\* the for loop over u->stations_to from its k-th edge on
route_any_for(st, Q, u, k, toid) ==
    IF k > Len(st[u].stations_to) THEN [st |-> st, Q |-> Q, found |-> FALSE]
    ELSE LET v    == st[u].stations_to[k].to
             disc == st[v].pi = NULL
             st1  == IF disc THEN route_any_discover(st, u, v) ELSE st
             Q1   == IF disc THEN queue_push(Q, v) ELSE Q
         IN  IF v = toid THEN [st |-> st1, Q |-> Q1, found |-> TRUE]
             ELSE route_any_for(st1, Q1, u, k + 1, toid)

RECURSIVE route_any_while(_, _, _, _)
\* while (!Q.empty()) { if (found_station) break; pop the front; scan its edges }
route_any_while(st, Q, found, toid) ==
    IF Q = <<>> \/ found THEN st
    ELSE LET r == route_any_for(st, Tail(Q), Head(Q), 1, toid)
         IN  route_any_while(r.st, r.Q, r.found, toid)

RECURSIVE route_any_walk(_, _, _, _)
\* the while (true) loop that follows pi from i back to fromid
route_any_walk(st, i, fromid, result) ==
    IF i = NULL THEN <<>>
    ELSE LET r == Append(result, <<i, st[i].d>>)
         IN  IF i = fromid THEN Reverse(r)
             ELSE route_any_walk(st, st[i].pi, fromid, r)

\* route_any_run without the return for fromid == toid: the search runs for every pair
route_any_run_searches_always(st, fromid, toid) ==
    IF fromid \notin DOMAIN st \/ toid \notin DOMAIN st THEN Outcome(st, NOT_FOUND_DISTANCE)
    ELSE LET st1 == route_any_while(route_any_reset(st, fromid), <<fromid>>, FALSE, toid)
         IN  Outcome(st1, route_any_walk(st1, st1[toid].pi, fromid, << <<toid, st1[toid].d>> >>))

\* the whole of route_any on registry st
route_any_run(st, fromid, toid) ==
    IF fromid \notin DOMAIN st \/ toid \notin DOMAIN st THEN Outcome(st, NOT_FOUND_DISTANCE)
    ELSE IF fromid = toid THEN Outcome(st, << <<fromid, 0>> >>)
    ELSE LET st1 == route_any_while(route_any_reset(st, fromid), <<fromid>>, FALSE, toid)
         IN  Outcome(st1, route_any_walk(st1, st1[toid].pi, fromid, << <<toid, st1[toid].d>> >>))

\* std::vector<std::pair<StationID, Distance>> Datastructures::route_any(StationID fromid, StationID toid)
route_any(fromid, toid) ==
    /\ op' = [name |-> "route_any", args |-> <<fromid, toid>>]
    /\ LET r == route_any_run(stations, fromid, toid)
       IN  stations' = r.st /\ ret' = r.result
    /\ nq' = nq + 1
    /\ UNCHANGED <<addr, trains, regions>>

-----------------------------------------------------------------------------
(* route_least_stations: the same search, d counts hops and de the distance *)

\* the reset loop of route_least_stations, then s->d = 0 and s->de = 0
route_least_stations_reset(st, fromid) ==
    [s \in DOMAIN st |->
        [st[s] EXCEPT !.d = IF s = fromid THEN 0 ELSE INF_D,
                      !.de = IF s = fromid THEN 0 ELSE INF_D,
                      !.pi = NULL]]

\* the body of "if (it->second.second->pi == nullptr)" in route_least_stations
route_least_stations_discover(st, u, v) ==
    [st EXCEPT ![v].d = st[u].d + 1,
               ![v].de = st[u].de + distance_between_points(st[u].location, st[v].location),
               ![v].pi = u]

RECURSIVE route_least_stations_for_reparent(_, _, _, _, _)
\* route_least_stations_for also taking u as the parent of a station that was
\* discovered before and lies as deep as u
route_least_stations_for_reparent(st, Q, u, k, toid) ==
    IF k > Len(st[u].stations_to) THEN [st |-> st, Q |-> Q, found |-> FALSE]
    ELSE LET v    == st[u].stations_to[k].to
             disc == st[v].pi = NULL \/ (v # u /\ st[v].d = st[u].d)
             st1  == IF disc THEN route_least_stations_discover(st, u, v) ELSE st
             Q1   == IF disc THEN queue_push(Q, v) ELSE Q
         IN  IF v = toid THEN [st |-> st1, Q |-> Q1, found |-> TRUE]
             ELSE route_least_stations_for_reparent(st1, Q1, u, k + 1, toid)

RECURSIVE route_least_stations_for(_, _, _, _, _)
\* the for loop over u->stations_to from its k-th edge on
route_least_stations_for(st, Q, u, k, toid) ==
    IF k > Len(st[u].stations_to) THEN [st |-> st, Q |-> Q, found |-> FALSE]
    ELSE LET v    == st[u].stations_to[k].to
             disc == st[v].pi = NULL
             st1  == IF disc THEN route_least_stations_discover(st, u, v) ELSE st
             Q1   == IF disc THEN queue_push(Q, v) ELSE Q
         IN  IF v = toid THEN [st |-> st1, Q |-> Q1, found |-> TRUE]
             ELSE route_least_stations_for(st1, Q1, u, k + 1, toid)

RECURSIVE route_least_stations_while(_, _, _, _)
\* while (!Q.empty()) { if (found_station) break; pop the front; scan its edges }
route_least_stations_while(st, Q, found, toid) ==
    IF Q = <<>> \/ found THEN st
    ELSE LET r == route_least_stations_for(st, Tail(Q), Head(Q), 1, toid)
         IN  route_least_stations_while(r.st, r.Q, r.found, toid)

RECURSIVE route_least_stations_walk(_, _, _, _)
\* the while (true) loop that follows pi from i back to fromid, which it pairs with 0
route_least_stations_walk(st, i, fromid, result) ==
    IF i = NULL THEN <<>>
    ELSE IF i = fromid THEN Reverse(Append(result, <<i, 0>>))
    ELSE route_least_stations_walk(st, st[i].pi, fromid, Append(result, <<i, st[i].de>>))

\* the whole of route_least_stations on registry st
route_least_stations_run(st, fromid, toid) ==
    IF fromid \notin DOMAIN st \/ toid \notin DOMAIN st THEN Outcome(st, NOT_FOUND_DISTANCE)
    ELSE IF fromid = toid THEN Outcome(st, << <<fromid, 0>> >>)
    ELSE LET st1 == route_least_stations_while(route_least_stations_reset(st, fromid),
                                               <<fromid>>, FALSE, toid)
         IN  Outcome(st1, route_least_stations_walk(st1, st1[toid].pi, fromid,
                                                    << <<toid, st1[toid].de>> >>))

\* std::vector<std::pair<StationID, Distance>> Datastructures::route_least_stations(StationID fromid, StationID toid)
route_least_stations(fromid, toid) ==
    /\ op' = [name |-> "route_least_stations", args |-> <<fromid, toid>>]
    /\ LET r == route_least_stations_run(stations, fromid, toid)
       IN  stations' = r.st /\ ret' = r.result
    /\ nq' = nq + 1
    /\ UNCHANGED <<addr, trains, regions>>

-----------------------------------------------------------------------------
(* route_with_cycle: depth-first search over an explicit stack *)

\* the reset loop of route_with_cycle
route_with_cycle_reset(st) ==
    [s \in DOMAIN st |-> [st[s] EXCEPT !.color = 0, !.pi = NULL]]

\* what "else if (it->second.second->color == 1)" tests: v is taken to be on the stack
is_back_edge(st, v) == st[v].color = 1

RECURSIVE route_with_cycle_for(_, _, _, _)
\* the for loop over u->stations_to from its k-th edge on; S is the stack, top last
route_with_cycle_for(st, S, u, k) ==
    IF k > Len(st[u].stations_to)
    THEN [st |-> st, S |-> S, found |-> FALSE, g |-> NULL, cycled |-> NULL]
    ELSE LET v == st[u].stations_to[k].to
         IN  IF st[v].color = 0
             THEN route_with_cycle_for([st EXCEPT ![v].pi = u], Append(S, v), u, k + 1)
             ELSE IF is_back_edge(st, v)
             THEN [st |-> st, S |-> S, found |-> TRUE, g |-> u, cycled |-> v]
             ELSE route_with_cycle_for(st, S, u, k + 1)

RECURSIVE route_with_cycle_while(_, _)
\* while (!S.empty()) { if (found_cycle) break; pop the top; expand it if it is white }
route_with_cycle_while(st, S) ==
    IF S = <<>> THEN [st |-> st, found |-> FALSE, g |-> NULL, cycled |-> NULL]
    ELSE LET u    == S[Len(S)]
             rest == SubSeq(S, 1, Len(S) - 1)
         IN  IF st[u].color = 0
             THEN LET r == route_with_cycle_for([st EXCEPT ![u].color = 1], Append(rest, u), u, 1)
                  IN  IF r.found THEN [st |-> r.st, found |-> TRUE, g |-> r.g, cycled |-> r.cycled]
                      ELSE route_with_cycle_while(r.st, r.S)
             ELSE route_with_cycle_while(st, rest)

RECURSIVE route_with_cycle_walk(_, _, _, _)
\* the while (true) loop that follows pi from i back to the start station
route_with_cycle_walk(st, i, fromid, result) ==
    IF i = NULL THEN <<>>
    ELSE LET r == Append(result, i)
         IN  IF i = fromid THEN Reverse(r)
             ELSE route_with_cycle_walk(st, st[i].pi, fromid, r)

\* the whole of route_with_cycle on registry st
route_with_cycle_run(st, fromid) ==
    IF fromid \notin DOMAIN st THEN Outcome(st, <<NO_STATION>>)
    ELSE LET r == route_with_cycle_while(route_with_cycle_reset(st), <<fromid>>)
         IN  IF ~r.found THEN Outcome(r.st, <<>>)
             ELSE Outcome(r.st, route_with_cycle_walk(r.st, r.st[r.g].pi, fromid, <<r.cycled, r.g>>))

\* std::vector<StationID> Datastructures::route_with_cycle(StationID fromid)
route_with_cycle(fromid) ==
    /\ op' = [name |-> "route_with_cycle", args |-> <<fromid>>]
    /\ LET r == route_with_cycle_run(stations, fromid)
       IN  stations' = r.st /\ ret' = r.result
    /\ nq' = nq + 1
    /\ UNCHANGED <<addr, trains, regions>>

-----------------------------------------------------------------------------
(* The priority sets of route_shortest_distance and route_earliest_arrival:  *)
(* std::set<std::pair<key, Station*>>, ordered by key and then by address    *)

\* *Q.begin(): the least pair
set_begin(Q, ad) ==
    CHOOSE e \in Q : \A f \in Q :
        e[1] < f[1] \/ (e[1] = f[1] /\ ad[e[2]] <= ad[f[2]])

\* it2 = Q.find(pair); if (it2 != Q.end()) { Q.erase(it2); Q.insert(pair); }
set_requeue(Q, pair) ==
    IF pair \in Q THEN (Q \ {pair}) \cup {pair} ELSE Q

-----------------------------------------------------------------------------
(* route_shortest_distance: A* on d, ordered by de = d + distance to the goal *)

\* the reset loop of route_shortest_distance, then s->d = 0
route_shortest_distance_reset(st, fromid) ==
    [s \in DOMAIN st |->
        [st[s] EXCEPT !.color = 0, !.d = IF s = fromid THEN 0 ELSE INF_D,
                      !.de = INF_D, !.pi = NULL]]

\* void Datastructures::relax_astar(Station* u, Station* v, Station* g)
relax_astar(st, u, v, g) ==
    LET new_d == distance_between_points(st[u].location, st[v].location)
    IN  IF st[v].d > st[u].d + new_d
        THEN LET min_est == distance_between_points(st[v].location, st[g].location)
             IN  [st EXCEPT ![v].d = st[u].d + new_d,
                            ![v].de = st[u].d + new_d + min_est,
                            ![v].pi = u]
        ELSE st

RECURSIVE route_shortest_distance_for(_, _, _, _, _)
\* the for loop over u->stations_to from its k-th edge on
route_shortest_distance_for(st, Q, u, k, g) ==
    IF k > Len(st[u].stations_to) THEN [st |-> st, Q |-> Q]
    ELSE LET v   == st[u].stations_to[k].to
             de  == st[v].de
             st1 == relax_astar(st, u, v, g)
         IN  IF st1[v].color = 0
             THEN route_shortest_distance_for([st1 EXCEPT ![v].color = 1],
                                              Q \cup {<<st1[v].de, v>>}, u, k + 1, g)
             ELSE IF de > st1[v].de
             THEN route_shortest_distance_for(st1, set_requeue(Q, <<st1[v].de, v>>), u, k + 1, g)
             ELSE route_shortest_distance_for(st1, Q, u, k + 1, g)

RECURSIVE route_shortest_distance_while(_, _, _, _)
\* while (!Q.empty()) { pop the least pair; break if it is g; relax its edges }
route_shortest_distance_while(st, Q, ad, g) ==
    IF Q = {} THEN st
    ELSE LET e == set_begin(Q, ad)
             u == e[2]
         IN  IF u = g THEN st
             ELSE LET r == route_shortest_distance_for(st, Q \ {e}, u, 1, g)
                  IN  route_shortest_distance_while(r.st, r.Q, ad, g)

RECURSIVE route_shortest_distance_walk(_, _, _, _)
\* the while (true) loop that follows pi from i back to fromid
route_shortest_distance_walk(st, i, fromid, result) ==
    IF i = NULL THEN <<>>
    ELSE LET r == Append(result, <<i, st[i].d>>)
         IN  IF i = fromid THEN Reverse(r)
             ELSE route_shortest_distance_walk(st, st[i].pi, fromid, r)

\* the whole of route_shortest_distance on registry st with node addresses ad
route_shortest_distance_run(st, ad, fromid, toid) ==
    IF fromid \notin DOMAIN st \/ toid \notin DOMAIN st THEN Outcome(st, NOT_FOUND_DISTANCE)
    ELSE IF fromid = toid THEN Outcome(st, << <<fromid, 0>> >>)
    ELSE LET st1 == route_shortest_distance_while(route_shortest_distance_reset(st, fromid),
                                                  {<<0, fromid>>}, ad, toid)
         IN  Outcome(st1, route_shortest_distance_walk(st1, st1[toid].pi, fromid,
                                                      << <<toid, st1[toid].d>> >>))

\* std::vector<std::pair<StationID, Distance>> Datastructures::route_shortest_distance(StationID fromid, StationID toid)
route_shortest_distance(fromid, toid) ==
    /\ op' = [name |-> "route_shortest_distance", args |-> <<fromid, toid>>]
    /\ LET r == route_shortest_distance_run(stations, addr, fromid, toid)
       IN  stations' = r.st /\ ret' = r.result
    /\ nq' = nq + 1
    /\ UNCHANGED <<addr, trains, regions>>

-----------------------------------------------------------------------------
(* route_earliest_arrival: d holds times; the set is keyed by Time *)

\* the reset loop of route_earliest_arrival, then s->d = starttime
route_earliest_arrival_reset(st, fromid, starttime) ==
    [s \in DOMAIN st |->
        [st[s] EXCEPT !.color = 0, !.d = IF s = fromid THEN starttime ELSE INF_D,
                      !.pi = NULL]]

\* the condition of relax_dijkstra
relax_dijkstra_cond(ud, vd, u_depart, at_v) ==
    vd > at_v /\ ud < at_v /\ ud <= u_depart /\ u_depart < at_v

\* relax_dijkstra leaving the time of the station it comes from as it was
relax_dijkstra_keeps_source(st, u, v, u_depart, at_v) ==
    IF relax_dijkstra_cond(st[u].d, st[v].d, u_depart, at_v)
    THEN [st EXCEPT ![v].d = at_v, ![v].pi = u]
    ELSE st

\* void Datastructures::relax_dijkstra(Station* u, Station* v, Time& u_depart, Time& at_v)
relax_dijkstra(st, u, v, u_depart, at_v) ==
    IF relax_dijkstra_cond(st[u].d, st[v].d, u_depart, at_v)
    THEN [st EXCEPT ![u].d = u_depart, ![v].d = at_v, ![v].pi = u]
    ELSE st

RECURSIVE route_earliest_arrival_for(_, _, _, _)
\* the for loop over u->stations_to from its k-th edge on
route_earliest_arrival_for(st, Q, u, k) ==
    IF k > Len(st[u].stations_to) THEN [st |-> st, Q |-> Q]
    ELSE LET e   == st[u].stations_to[k]
             v   == e.to
             d   == ToTime(st[v].d)
             st1 == relax_dijkstra(st, u, v, e.dep, e.arr)
             key == <<ToTime(st1[v].d), v>>
         IN  IF st1[v].color = 0
             THEN route_earliest_arrival_for([st1 EXCEPT ![v].color = 1], Q \cup {key}, u, k + 1)
             ELSE IF d > st1[v].d
             THEN route_earliest_arrival_for(st1, set_requeue(Q, key), u, k + 1)
             ELSE route_earliest_arrival_for(st1, Q, u, k + 1)

RECURSIVE route_earliest_arrival_while(_, _, _, _)
\* while (!Q.empty()) { pop the least pair; break if it is g; relax its edges }
route_earliest_arrival_while(st, Q, ad, g) ==
    IF Q = {} THEN st
    ELSE LET e == set_begin(Q, ad)
             u == e[2]
         IN  IF u = g THEN st
             ELSE LET r == route_earliest_arrival_for(st, Q \ {e}, u, 1)
                  IN  route_earliest_arrival_while(r.st, r.Q, ad, g)

RECURSIVE route_earliest_arrival_walk(_, _, _, _)
\* the while (true) loop that collects the path from g back to fromid; it returns
\* <<>> on a nullptr, and DIVERGES when pi leads back to a station already on
\* the path, where the loop of the source never ends
route_earliest_arrival_walk(st, i, fromid, path) ==
    IF i = NULL THEN <<>>
    ELSE IF \E j \in 1..Len(path) : path[j] = i THEN DIVERGES
    ELSE IF i = fromid THEN Append(path, i)
    ELSE route_earliest_arrival_walk(st, st[i].pi, fromid, Append(path, i))

RECURSIVE route_earliest_arrival_edges(_, _, _, _, _, _)
\* the inner loop of the second pass: the edges of station a, from the k-th on,
\* that lead to the next station b of the path
route_earliest_arrival_edges(st, a, b, k, prev_arrival, tracker) ==
    IF k > Len(st[a].stations_to) THEN [st |-> st, tracker |-> tracker]
    ELSE LET e == st[a].stations_to[k]
         IN  IF e.to = b /\ e.dep < st[a].d /\ e.dep >= prev_arrival /\ e.arr <= st[b].d
             THEN route_earliest_arrival_edges([st EXCEPT ![a].d = e.dep], a, b, k + 1,
                                               prev_arrival, e.arr)
             ELSE route_earliest_arrival_edges(st, a, b, k + 1, prev_arrival, tracker)

RECURSIVE route_earliest_arrival_pass(_, _, _, _, _)
\* the second pass over the path (from fromid to g), from its n-th station on
route_earliest_arrival_pass(st, fwd, n, prev_arrival, tracker) ==
    IF n >= Len(fwd) THEN st
    ELSE LET r == route_earliest_arrival_edges(st, fwd[n], fwd[n + 1], 1, prev_arrival, tracker)
         IN  route_earliest_arrival_pass(r.st, fwd, n + 1, r.tracker, r.tracker)

\* the whole of route_earliest_arrival on registry st with node addresses ad
route_earliest_arrival_run(st, ad, fromid, toid, starttime) ==
    IF fromid \notin DOMAIN st \/ toid \notin DOMAIN st THEN Outcome(st, NOT_FOUND_TIME)
    ELSE IF fromid = toid THEN Outcome(st, << <<fromid, starttime>> >>)
    ELSE LET st1  == route_earliest_arrival_while(
                         route_earliest_arrival_reset(st, fromid, starttime),
                         {<<0, fromid>>}, ad, toid)
             path == route_earliest_arrival_walk(st1, st1[toid].pi, fromid, <<toid>>)
         IN  IF path = DIVERGES THEN Outcome(st1, NO_RETURN)
             ELSE IF path = <<>> THEN Outcome(st1, <<>>)
             ELSE LET fwd == Reverse(path)
                      st2 == route_earliest_arrival_pass(st1, fwd, 1, starttime, TRACKER_INIT)
                  IN  Outcome(st2, [n \in 1..Len(fwd) |-> <<fwd[n], ToTime(st2[fwd[n]].d)>>])

\* std::vector<std::pair<StationID, Time>> Datastructures::route_earliest_arrival(StationID fromid, StationID toid, Time starttime)
route_earliest_arrival(fromid, toid, starttime) ==
    /\ op' = [name |-> "route_earliest_arrival", args |-> <<fromid, toid, starttime>>]
    /\ LET r == route_earliest_arrival_run(stations, addr, fromid, toid, starttime)
       IN  stations' = r.st /\ ret' = r.result
    /\ nq' = nq + 1
    /\ UNCHANGED <<addr, trains, regions>>

-----------------------------------------------------------------------------
(* Resets *)

\* void Datastructures::clear_all(): the stations and the regions go, the trains stay
clear_all ==
    /\ op' = [name |-> "clear_all", args |-> <<>>]
    /\ stations' = [s \in {} |-> 0]
    /\ addr' = [s \in {} |-> 0]
    /\ regions' = [r \in {} |-> 0]
    /\ ret' = TRUE
    /\ UNCHANGED <<trains, nq>>

\* void Datastructures::clear_trains(): only the train registry is emptied;
\* the departures and the edges of the stations are not touched
clear_trains ==
    /\ op' = [name |-> "clear_trains", args |-> <<>>]
    /\ trains' = [t \in {} |-> 0]
    /\ ret' = TRUE
    /\ UNCHANGED <<stations, addr, nq, regions>>

-----------------------------------------------------------------------------
(* Region hierarchy *)

\* what ret holds when common_parent_of_regions never returns: no RegionID of the model
NO_RETURN_REGION == -2
\* what ret holds when station_in_regions never returns
NO_RETURN_REGIONS == <<NO_RETURN_REGION>>

\* the Region that add_region inserts
NewRegion(id, name, coords) ==
    [id |-> id, name |-> name, coordinates |-> coords,
     parent |-> NO_REGION, subregions |-> {}]

\* the regions after add_region(id, name, coords), with what it returns
add_region_run(rg, id, name, coords) ==
    IF id \notin DOMAIN rg
    THEN [regions |-> rg @@ (id :> NewRegion(id, name, coords)), ret |-> TRUE]
    ELSE [regions |-> rg, ret |-> FALSE]

\* bool Datastructures::add_region(RegionID id, Name const& name, std::vector<Coord> coords)
add_region(id, name, coords) ==
    /\ op' = [name |-> "add_region", args |-> <<id, name, coords>>]
    /\ LET r == add_region_run(regions, id, name, coords)
       IN  regions' = r.regions /\ ret' = r.ret
    /\ UNCHANGED <<stations, addr, trains, nq>>

\* what get_region_name(id) returns
get_region_name_run(rg, id) ==
    IF id \notin DOMAIN rg THEN NO_NAME ELSE rg[id].name

\* Name Datastructures::get_region_name(RegionID id)
get_region_name(id) ==
    /\ op' = [name |-> "get_region_name", args |-> <<id>>]
    /\ ret' = get_region_name_run(regions, id)
    /\ UNCHANGED <<stations, addr, trains, nq, regions>>

\* what get_region_coords(id) returns
get_region_coords_run(rg, id) ==
    IF id \notin DOMAIN rg THEN <<NO_COORD>> ELSE rg[id].coordinates

\* std::vector<Coord> Datastructures::get_region_coords(RegionID id)
get_region_coords(id) ==
    /\ op' = [name |-> "get_region_coords", args |-> <<id>>]
    /\ ret' = get_region_coords_run(regions, id)
    /\ UNCHANGED <<stations, addr, trains, nq, regions>>

\* add_subregion_to_region_run that lets a region with a parent take a new one
add_subregion_to_region_run_reparent(rg, id, parentid) ==
    IF id \notin DOMAIN rg \/ parentid \notin DOMAIN rg
    THEN [regions |-> rg, ret |-> FALSE]
    ELSE [regions |-> [rg EXCEPT ![parentid].subregions = @ \cup {id},
                                 ![id].parent = parentid],
          ret |-> TRUE]

\* add_subregion_to_region_run that also refuses a parent that is the region
\* itself or a child of it
add_subregion_to_region_run_checks_parent(rg, id, parentid) ==
    IF id \notin DOMAIN rg \/ parentid \notin DOMAIN rg \/ rg[id].parent # NO_REGION
          \/ parentid = id \/ rg[parentid].parent = id
    THEN [regions |-> rg, ret |-> FALSE]
    ELSE [regions |-> [rg EXCEPT ![parentid].subregions = @ \cup {id},
                                 ![id].parent = parentid],
          ret |-> TRUE]

\* the regions after add_subregion_to_region(id, parentid), with what it returns
add_subregion_to_region_run(rg, id, parentid) ==
    IF id \notin DOMAIN rg \/ parentid \notin DOMAIN rg \/ rg[id].parent # NO_REGION
    THEN [regions |-> rg, ret |-> FALSE]
    ELSE [regions |-> [rg EXCEPT ![parentid].subregions = @ \cup {id},
                                 ![id].parent = parentid],
          ret |-> TRUE]

\* bool Datastructures::add_subregion_to_region(RegionID id, RegionID parentid)
add_subregion_to_region(id, parentid) ==
    /\ op' = [name |-> "add_subregion_to_region", args |-> <<id, parentid>>]
    /\ LET r == add_subregion_to_region_run(regions, id, parentid)
       IN  regions' = r.regions /\ ret' = r.ret
    /\ UNCHANGED <<stations, addr, trains, nq>>

\* the stations after add_station_to_region(id, parentid), with what it returns
add_station_to_region_run(st, rg, id, parentid) ==
    IF id \notin DOMAIN st \/ parentid \notin DOMAIN rg \/ st[id].region # NO_REGION
    THEN [stations |-> st, ret |-> FALSE]
    ELSE [stations |-> [st EXCEPT ![id].region = parentid], ret |-> TRUE]

\* bool Datastructures::add_station_to_region(StationID id, RegionID parentid)
add_station_to_region(id, parentid) ==
    /\ op' = [name |-> "add_station_to_region", args |-> <<id, parentid>>]
    /\ LET r == add_station_to_region_run(stations, regions, id, parentid)
       IN  stations' = r.stations /\ ret' = r.ret
    /\ UNCHANGED <<addr, trains, nq, regions>>

\* does x occur in the sequence s
Occurs(x, s) == \E i \in 1..Len(s) : s[i] = x

\* station_in_regions_while that starts the walk at the parent of the station's region
station_in_regions_while_skips_own(rg, help_it, result) ==
    IF help_it \in DOMAIN rg /\ rg[help_it].parent \in DOMAIN rg
    THEN <<rg[help_it].parent>>
    ELSE <<>>

RECURSIVE station_in_regions_while(_, _, _)
\* the while (true) loop of station_in_regions with help_it at the region
\* help_it; a region met a second time is met for ever, and the loop has no end
station_in_regions_while(rg, help_it, result) ==
    IF help_it \in DOMAIN rg
    THEN IF Occurs(help_it, result) THEN NO_RETURN_REGIONS
         ELSE station_in_regions_while(rg, rg[help_it].parent, Append(result, rg[help_it].id))
    ELSE result

\* what station_in_regions(id) returns
station_in_regions_run(st, rg, id) ==
    IF id \notin DOMAIN st THEN <<NO_REGION>>
    ELSE IF st[id].region = NO_REGION THEN <<>>
    ELSE station_in_regions_while(rg, st[id].region, <<>>)

\* std::vector<RegionID> Datastructures::station_in_regions(StationID id)
station_in_regions(id) ==
    /\ op' = [name |-> "station_in_regions", args |-> <<id>>]
    /\ ret' = station_in_regions_run(stations, regions, id)
    /\ UNCHANGED <<stations, addr, trains, nq, regions>>

\* std::find_first_of: the first element of s that occurs in t, NO_REGION for end()
RECURSIVE find_first_of(_, _)
find_first_of(s, t) ==
    IF s = <<>> THEN NO_REGION
    ELSE IF Occurs(Head(s), t) THEN Head(s)
    ELSE find_first_of(Tail(s), t)

\* parents_step that collects the region itself before its parents
parents_step_with_self(rg, it, parents) ==
    LET own == IF parents = <<>> THEN <<it>> ELSE parents
    IN  IF rg[it].parent # NO_REGION
        THEN [it |-> rg[it].parent, parents |-> Append(own, rg[it].parent)]
        ELSE [it |-> it, parents |-> own]

\* one side of an iteration of the loop of common_parent_of_regions: the
\* iterator it and the list of parents collected so far
parents_step(rg, it, parents) ==
    IF rg[it].parent # NO_REGION
    THEN [it |-> rg[it].parent, parents |-> Append(parents, rg[it].parent)]
    ELSE [it |-> it, parents |-> parents]

RECURSIVE common_parent_of_regions_while(_, _, _, _, _, _)
\* the while (true) loop of common_parent_of_regions; every parent link names
\* a registered region, so neither iterator is ever regions.end(). A chain of
\* parents without a cycle is shorter than the number of regions: when rounds
\* runs out, a chain has a cycle and the loop has no end
common_parent_of_regions_while(rg, it1, it2, parents_of_id1, parents_of_id2, rounds) ==
    LET s1 == parents_step(rg, it1, parents_of_id1)
        s2 == parents_step(rg, it2, parents_of_id2)
    IN  IF rg[s1.it].parent = NO_REGION /\ rg[s2.it].parent = NO_REGION
        THEN [ends |-> TRUE, parents_of_id1 |-> s1.parents, parents_of_id2 |-> s2.parents]
        ELSE IF rounds = 0
        THEN [ends |-> FALSE, parents_of_id1 |-> s1.parents, parents_of_id2 |-> s2.parents]
        ELSE common_parent_of_regions_while(rg, s1.it, s2.it, s1.parents, s2.parents, rounds - 1)

\* what common_parent_of_regions(id1, id2) returns
common_parent_of_regions_run(rg, id1, id2) ==
    IF id1 \notin DOMAIN rg \/ id2 \notin DOMAIN rg THEN NO_REGION
    ELSE IF rg[id1].parent = rg[id2].parent THEN rg[id1].parent
    ELSE LET w == common_parent_of_regions_while(rg, id1, id2, <<>>, <<>>,
                                                 Cardinality(DOMAIN rg))
         IN  IF ~w.ends THEN NO_RETURN_REGION
             ELSE IF w.parents_of_id1 = <<>> \/ w.parents_of_id2 = <<>> THEN NO_REGION
             ELSE find_first_of(w.parents_of_id1, w.parents_of_id2)

\* RegionID Datastructures::common_parent_of_regions(RegionID id1, RegionID id2)
common_parent_of_regions(id1, id2) ==
    /\ op' = [name |-> "common_parent_of_regions", args |-> <<id1, id2>>]
    /\ ret' = common_parent_of_regions_run(regions, id1, id2)
    /\ UNCHANGED <<stations, addr, trains, nq, regions>>

\* the orders in which the elements of an unordered_set holding S can come
\* out of an iteration: the hash table fixes one, and any one is possible
Orders(S) ==
    {s \in [1..Cardinality(S) -> S] : \A i, j \in 1..Cardinality(S) : s[i] = s[j] => i = j}

RECURSIVE Below(_, _, _)
\* the regions that one to n child links lead to from region r
Below(rg, r, n) ==
    IF n = 0 THEN {}
    ELSE LET B == Below(rg, r, n - 1)
         IN  B \cup UNION {rg[x].subregions : x \in (B \cup {r}) \cap DOMAIN rg}

\* regions_recursively_for that pushes the children and does not descend into them
regions_recursively_for_children_only(rg, order, k) ==
    {SubSeq(order, k, Len(order))}

RECURSIVE regions_recursively(_, _)
RECURSIVE regions_recursively_for(_, _, _)
\* the for loop of regions_recursively from the k-th subregion of the
\* iteration order on: what it can append to result
regions_recursively_for(rg, order, k) ==
    IF k > Len(order) THEN {<<>>}
    ELSE {<<order[k]>> \o below \o rest :
             below \in regions_recursively(rg, order[k]),
             rest \in regions_recursively_for(rg, order, k + 1)}

\* void Datastructures::regions_recursively(std::vector<RegionID>& result, iterator it):
\* what the call can append to result, for a region without a cycle below it
regions_recursively(rg, it) ==
    IF Cardinality(rg[it].subregions) <= 0 THEN {<<>>}
    ELSE UNION {regions_recursively_for(rg, order, 1) : order \in Orders(rg[it].subregions)}

\* what all_subregions_of_region(id) can return; with a cycle of child links
\* below the region the recursion never comes back
all_subregions_of_region_run(rg, id) ==
    IF id \notin DOMAIN rg THEN {<<NO_REGION>>}
    ELSE IF Cardinality(rg[id].subregions) = 0 THEN {<<>>}
    ELSE IF \E r \in Below(rg, id, Cardinality(DOMAIN rg)) :
                r \in Below(rg, r, Cardinality(DOMAIN rg))
    THEN {NO_RETURN_REGIONS}
    ELSE regions_recursively(rg, id)

\* std::vector<RegionID> Datastructures::all_subregions_of_region(RegionID id)
all_subregions_of_region(id) ==
    /\ op' = [name |-> "all_subregions_of_region", args |-> <<id>>]
    /\ ret' \in all_subregions_of_region_run(regions, id)
    /\ UNCHANGED <<stations, addr, trains, nq, regions>>

-----------------------------------------------------------------------------
(* Inputs of the operations *)

StationIDs == {"S1", "S2", "S3", "S4"}
TrainIDs == {"T1", "T2"}
\* addresses the allocator hands out to Station nodes
Addrs == {1, 2, 3, 4}
\* the least free address: an allocator that fills the heap in order
FirstFree == {a \in FreeAddrs(Addrs) : \A b \in FreeAddrs(Addrs) : a <= b}

\* stop lists of at most MaxStops stops
StopLists(Stops) == SeqsUpTo(Stops, MaxStops)

Init ==
    /\ stations = [s \in {} |-> 0]
    /\ addr = [s \in {} |-> 0]
    /\ trains = [t \in {} |-> 0]
    /\ op = [name |-> "init", args |-> <<>>]
    /\ ret = TRUE
    /\ nq = 0
    /\ regions = [r \in {} |-> 0]

-----------------------------------------------------------------------------
(* Registry and network builder *)

\* the stops a train's list is drawn from: the two trains run at different times
BuildStops(t) ==
    IF t = "T1" THEN {<<"S1", 100>>, <<"S2", 110>>}
    ELSE {<<"S1", 120>>, <<"S2", 105>>}

Next ==
    \/ \E id \in {"S1", "S2"}, a \in FirstFree : add_station(id, "Name", <<0, 0>>, a)
    \/ \E t \in TrainIDs : \E sl \in StopLists(BuildStops(t)) : add_train(t, sl)

Spec == Init /\ [][Next]_vars

-----------------------------------------------------------------------------------------------------------------------------------------------------
(* Routes that ignore the timetable: four stations on fixed coordinates, two *)
(* trains, and the two breadth-first queries from S1 to S4                   *)

\* the order in which the stations get registered
StationOrder == <<"S1", "S2", "S3", "S4">>

\* the station registered next
NextStation ==
    IF Cardinality(DOMAIN stations) < Len(StationOrder)
    THEN {StationOrder[Cardinality(DOMAIN stations) + 1]}
    ELSE {}

\* the train id used next
NextTrain ==
    IF "T1" \notin DOMAIN trains THEN {"T1"}
    ELSE IF "T2" \notin DOMAIN trains THEN {"T2"} ELSE {}

PathCoords(id) ==
    CASE id = "S1" -> <<0, 0>>
      [] id = "S2" -> <<3, 4>>
      [] id = "S3" -> <<6, 8>>
      [] id = "S4" -> <<6, 0>>

PathStops == {<<s, 100>> : s \in StationIDs}

\* the stops among Stops at stations that are registered
KnownStops(Stops) == {x \in Stops : x[1] \in DOMAIN stations}

\* the stop lists of the trains: lines that call at no station twice, and
\* the lists of at most two stops, which also give an edge from a station to itself
PathLists ==
    {sl \in StopLists(KnownStops(PathStops)) :
        Len(sl) <= 2 \/ \A i, j \in 1..Len(sl) : sl[i][1] = sl[j][1] => i = j}

NextPaths ==
    \/ \E id \in NextStation, a \in FirstFree : add_station(id, "Name", PathCoords(id), a)
    \/ \E t \in NextTrain, sl \in PathLists : add_train(t, sl)
    \/ nq < MaxQueries /\ \E to \in {"S4", "S1"} : route_any("S1", to)
    \/ nq < MaxQueries /\ \E to \in {"S4", "S1"} : route_least_stations("S1", to)

SpecPaths == Init /\ [][NextPaths]_vars

-----------------------------------------------------------------------------
(* Routes by distance and cycles: the same network builder, with S4 either   *)
(* near the others or a million units away                                   *)

RouteCoords(id) ==
    IF id = "S4" THEN {<<6, 0>>, <<1000000, 0>>} ELSE {PathCoords(id)}

NextRoutes ==
    \/ \E id \in NextStation : \E xy \in RouteCoords(id), a \in FirstFree :
           add_station(id, "Name", xy, a)
    \/ \E t \in NextTrain, sl \in PathLists : add_train(t, sl)
    \/ nq < MaxQueries /\ route_any("S1", "S4")
    \/ nq < MaxQueries /\ route_least_stations("S1", "S4")
    \/ nq < MaxQueries /\ \E to \in {"S3", "S4"} : route_shortest_distance("S1", to)
    \/ nq < MaxQueries /\ route_with_cycle("S1")

SpecRoutes == Init /\ [][NextRoutes]_vars

-----------------------------------------------------------------------------
(* Routes by time: lines that call at no station twice and whose stops take  *)
(* consecutive times of the clock                                            *)

\* the times of the timetable
Clock == <<100, 110, 130, 150>>

\* the stop list of a line over the stations sts that starts at Clock[c]
Line(sts, c) == [i \in 1..Len(sts) |-> <<sts[i], Clock[c + i - 1]>>]

TimeLists ==
    UNION {{Line(sts, c) : c \in 1..(Len(Clock) + 1 - Len(sts))} :
              sts \in {x \in SeqsUpTo(DOMAIN stations, MaxStops) :
                          \A i, j \in 1..Len(x) : x[i] = x[j] => i = j}}

NextTime ==
    \/ \E id \in NextStation, a \in FirstFree : add_station(id, "Name", PathCoords(id), a)
    \/ \E t \in NextTrain, sl \in TimeLists : add_train(t, sl)
    \/ nq < MaxQueries /\ \E t0 \in {90, 110} : route_earliest_arrival("S1", "S3", t0)

SpecTime == Init /\ [][NextTime]_vars

-----------------------------------------------------------------------------
(* The scenario of one line: S1 (0,0), S2 (3,4), S3 (6,8), the train T1 on   *)
(* the clock, and the query from S1 to S3 at 90; the station nodes lie at    *)
(* any addresses                                                             *)

NextScenario ==
    \/ \E id \in NextStation \ {"S4"}, a \in FreeAddrs(Addrs) :
           add_station(id, "Name", PathCoords(id), a)
    \/ \E t \in {"T1"} \ DOMAIN trains, sl \in TimeLists : add_train(t, sl)
    \/ nq < MaxQueries /\ route_earliest_arrival("S1", "S3", 90)

SpecScenario == Init /\ [][NextScenario]_vars

-----------------------------------------------------------------------------
(* Queries one after another: S1, S2, S3 on their coordinates, two trains on *)
(* lines that leave with the first time of the clock, and each of the five   *)
(* queries from S1, asked at any moment, also before S1 or S3 is registered  *)

\* the stop lists of the trains: lines of two stops or more that call at no station twice
QueryLists ==
    {Line(sts, 1) : sts \in {x \in SeqsUpTo(DOMAIN stations, MaxStops) :
                                Len(x) >= 2 /\ \A i, j \in 1..Len(x) : x[i] = x[j] => i = j}}

NextQueries ==
    \/ \E id \in NextStation \ {"S4"}, a \in FirstFree :
           add_station(id, "Name", PathCoords(id), a)
    \/ \E t \in NextTrain, sl \in QueryLists : add_train(t, sl)
    \/ nq < MaxHistory /\ \E to \in {"S1", "S3"} : route_any("S1", to)
    \/ nq < MaxHistory /\ \E to \in {"S1", "S3"} : route_least_stations("S1", to)
    \/ nq < MaxHistory /\ \E to \in {"S1", "S3"} : route_shortest_distance("S1", to)
    \/ nq < MaxHistory /\ \E to \in {"S1", "S3"} : route_earliest_arrival("S1", to, 90)
    \/ nq < MaxHistory /\ route_with_cycle("S1")

SpecQueries == Init /\ [][NextQueries]_vars

-----------------------------------------------------------------------------
(* A timetable of three trains that leave one after another: S1 .. S4 on     *)
(* their coordinates, every train on a line that calls at no station twice,  *)
(* and the query for the earliest arrival at S4 from S1                      *)

\* the order in which the three trains are added
TrainOrder == <<"T1", "T2", "T3">>

\* the train added next
NextOfThree ==
    IF Cardinality(DOMAIN trains) < Len(TrainOrder)
    THEN {TrainOrder[Cardinality(DOMAIN trains) + 1]}
    ELSE {}

\* the time of the i-th stop of the k-th train: stops are twenty apart, and a
\* train leaves its first stop when the train before it makes its third
StopTime(k, i) == 100 + 20 * (2 * (k - 1) + i - 1)

\* the stop lists of the k-th train: lines of two stops or more that call at no station twice
TimetableLists(k) ==
    {[i \in 1..Len(sts) |-> <<sts[i], StopTime(k, i)>>] :
        sts \in {x \in SeqsUpTo(DOMAIN stations, MaxStops) :
                    Len(x) >= 2 /\ \A i, j \in 1..Len(x) : x[i] = x[j] => i = j}}

NextTimetable ==
    \/ \E id \in NextStation, a \in FirstFree : add_station(id, "Name", PathCoords(id), a)
    \/ \E t \in NextOfThree : \E sl \in TimetableLists(Cardinality(DOMAIN trains) + 1) :
           add_train(t, sl)
    \/ nq < MaxQueries /\ route_earliest_arrival("S1", "S4", 90)

SpecTimetable == Init /\ [][NextTimetable]_vars

-----------------------------------------------------------------------------
(* What the claims speak of, defined on the registry without the searches *)

\* the trains registered at station s for departure time t
DeparturesAt(st, s, t) ==
    IF t \in DOMAIN st[s].departures THEN st[s].departures[t] ELSE {}

\* the edges a stop list gives station s: one for every stop at s but the last
\* stop of the list, in the order of the list
EdgesOf(sl, s) ==
    LET idx == SelectSeq([i \in 1..(Len(sl) - 1) |-> i], LAMBDA i : sl[i][1] = s)
    IN  [k \in 1..Len(idx) |->
            [dep |-> sl[idx[k]][2], arr |-> sl[idx[k] + 1][2], to |-> sl[idx[k] + 1][1]]]

\* station u has an outgoing edge to station v
HasEdge(st, u, v) == \E k \in 1..Len(st[u].stations_to) : st[u].stations_to[k].to = v

\* some registered train has v as the stop that follows a stop at u
ProvidedByTrain(tr, u, v) ==
    \E t \in DOMAIN tr :
        \E i \in 1..(Len(tr[t].stationtimes) - 1) :
            tr[t].stationtimes[i][1] = u /\ tr[t].stationtimes[i + 1][1] = v

RECURSIVE Within(_, _, _)
\* the stations that at most n edges lead to from station from
Within(st, from, n) ==
    IF n = 0 THEN {from}
    ELSE LET W == Within(st, from, n - 1)
         IN  W \cup {v \in DOMAIN st : \E u \in W : HasEdge(st, u, v)}

\* station to can be reached from station from by following outgoing edges
Reachable(st, from, to) == to \in Within(st, from, Cardinality(DOMAIN st))

\* a directed cycle can be reached from station from: some station that from
\* reaches has an edge to a station that leads back to it
CycleReachable(st, from) ==
    \E v, w \in DOMAIN st :
        Reachable(st, from, v) /\ HasEdge(st, v, w) /\ Reachable(st, w, v)

\* least of a non-empty set of integers
Least(S) == CHOOSE x \in S : \A y \in S : x <= y

RECURSIVE PathLengths(_, _, _, _)
\* the lengths of the simple edge paths from u to station to that avoid the
\* stations of seen, each the sum of distance_between_points over its edges
PathLengths(st, u, to, seen) ==
    IF u = to THEN {0}
    ELSE UNION {{distance_between_points(st[u].location, st[v].location) + l :
                    l \in PathLengths(st, v, to, seen \cup {v})} :
                v \in {w \in DOMAIN st \ seen : HasEdge(st, u, w)}}

RECURSIVE TimedReach(_, _, _)
\* the pairs (station, time) of S and those that at most n edges lead to from
\* them, an edge being usable at a pair when it leaves the pair's station
\* no earlier than the pair's time
TimedReach(st, S, n) ==
    IF n = 0 THEN S
    ELSE LET R == TimedReach(st, S, n - 1)
         IN  R \cup UNION {{<<st[p[1]].stations_to[k].to, st[p[1]].stations_to[k].arr>> :
                              k \in {j \in 1..Len(st[p[1]].stations_to) :
                                        st[p[1]].stations_to[j].dep >= p[2]}} : p \in R}

\* the number of edges of the network
EdgeCount(st) ==
    LET RECURSIVE Sum(_)
        Sum(D) == IF D = {} THEN 0
                  ELSE LET s == CHOOSE x \in D : TRUE
                       IN  Len(st[s].stations_to) + Sum(D \ {s})
    IN  Sum(DOMAIN st)

\* the times at which station to can be arrived at by a time-respecting
\* sequence of edges that leaves station from at t0 or later
ArrivalTimes(st, from, to, t0) ==
    {p[2] : p \in {q \in TimedReach(st, {<<from, t0>>}, EdgeCount(st)) \ {<<from, t0>>} :
                       q[1] = to}}

RECURSIVE HopsFeasible(_, _, _, _)
\* the entries of result r from the i-th on can be travelled: an edge leaves
\* each station for the next at the time paired with the station, no earlier
\* than lower, and the rest can be travelled from that edge's arrival on
HopsFeasible(st, r, i, lower) ==
    i >= Len(r) \/
    \E k \in 1..Len(st[r[i][1]].stations_to) :
        LET e == st[r[i][1]].stations_to[k]
        IN  /\ e.to = r[i + 1][1]
            /\ e.dep = r[i][2]
            /\ e.dep >= lower
            /\ HopsFeasible(st, r, i + 1, e.arr)

\* the station's record without its edges and departures
Rest(r) == [id |-> r.id, name |-> r.name, location |-> r.location, region |-> r.region,
            color |-> r.color, d |-> r.d, de |-> r.de, pi |-> r.pi]

-----------------------------------------------------------------------------
(* Trains added and cleared: S1 and S2, trains on the lines between them,    *)
(* clear_trains, and the four queries from S1 to S2. A train id is free      *)
(* again once the trains are cleared; trains are added while the network     *)
(* has fewer than MaxEdges edges                                             *)

NextReset ==
    \/ \E id \in NextStation \ {"S3", "S4"}, a \in FirstFree :
           add_station(id, "Name", PathCoords(id), a)
    \/ /\ EdgeCount(stations) < MaxEdges
       /\ \E t \in NextTrain, sl \in QueryLists : add_train(t, sl)
    \/ clear_trains
    \/ nq < MaxQueries /\ route_any("S1", "S2")
    \/ nq < MaxQueries /\ route_least_stations("S1", "S2")
    \/ nq < MaxQueries /\ route_shortest_distance("S1", "S2")
    \/ nq < MaxQueries /\ route_earliest_arrival("S1", "S2", 90)

SpecReset == Init /\ [][NextReset]_vars

-----------------------------------------------------------------------------
(* The region hierarchy: four regions registered in order, the station S1,   *)
(* put into the first or the last of them, every pairing of regions as      *)
(* child and parent, and clear_all. S2 is never registered, and a region is  *)
(* unknown until it is added                                                 *)

RegionIDs == {1, 2, 3, 4}

\* the region registered next, and those registered already
NextRegion == {r \in RegionIDs : r <= Cardinality(DOMAIN regions) + 1}

NextRegions ==
    \/ \E id \in NextStation \ {"S2", "S3", "S4"}, a \in FirstFree :
           add_station(id, "Name", PathCoords(id), a)
    \/ \E id \in NextRegion : add_region(id, "Region", << <<0, 0>>, <<6, 0>>, <<6, 8>> >>)
    \/ \E id, parentid \in RegionIDs : add_subregion_to_region(id, parentid)
    \/ \E id \in {"S1", "S2"}, parentid \in {1, 4} : add_station_to_region(id, parentid)
    \/ \E id \in {"S1", "S2"} : station_in_regions(id)
    \/ \E id1, id2 \in RegionIDs : common_parent_of_regions(id1, id2)
    \/ clear_all

SpecRegions == Init /\ [][NextRegions]_vars

\* the regions above region r in the hierarchy rg, nearest first; defined
\* where following the parent links from r meets no region twice
RECURSIVE AncestorChain(_, _)
AncestorChain(rg, r) ==
    IF rg[r].parent = NO_REGION THEN <<>>
    ELSE <<rg[r].parent>> \o AncestorChain(rg, rg[r].parent)

RECURSIVE Above(_, _, _)
\* the regions that one to n parent links lead to from region r
Above(rg, r, n) ==
    IF n = 0 THEN {}
    ELSE LET A == Above(rg, r, n - 1)
         IN  {rg[x].parent : x \in {y \in A \cup {r} : rg[y].parent # NO_REGION}}
                 \cup A

\* no region of rg is above itself
Acyclic(rg) == \A r \in DOMAIN rg : r \notin Above(rg, r, Cardinality(DOMAIN rg))

-----------------------------------------------------------------------------
(* The subregions of a region: the four regions registered in order, every   *)
(* pairing of them as child and parent, and the query for the subregions     *)

NextHierarchy ==
    \/ \E id \in NextRegion : add_region(id, "Region", << <<0, 0>>, <<6, 0>>, <<6, 8>> >>)
    \/ \E id, parentid \in RegionIDs : add_subregion_to_region(id, parentid)
    \/ \E id \in RegionIDs : all_subregions_of_region(id)

SpecHierarchy == Init /\ [][NextHierarchy]_vars

\* the regions below region r in the hierarchy rg
Descendants(rg, r) == {x \in DOMAIN rg : r \in Above(rg, x, Cardinality(DOMAIN rg))}

-----------------------------------------------------------------------------
(* The registries: the station S1 and the regions added with good and with   *)
(* absent ids, names and coordinates, also twice under one id; the regions   *)
(* made subregions of each other, S1 put into region 1, one train that       *)
(* leaves S1 for S1, and the lookups by id                                   *)

\* the polygon of a region
Triangle == << <<0, 0>>, <<6, 0>>, <<6, 8>> >>

NextRegistry ==
    \/ \E id \in {"S1", NO_STATION}, name \in {"Name", "Other", NO_NAME},
          xy \in {<<0, 0>>, <<3, 4>>, NO_COORD}, a \in FirstFree :
           add_station(id, name, xy, a)
    \/ \E id \in {1, NO_REGION}, name \in {"Region", "Other", NO_NAME} :
           add_region(id, name, Triangle)
    \/ \E id, parentid \in {1, NO_REGION} : add_subregion_to_region(id, parentid)
    \/ add_station_to_region("S1", 1)
    \/ \E t \in {"T1"} \ DOMAIN trains : add_train(t, << <<"S1", 100>>, <<"S1", 110>> >>)
    \/ \E id \in {"S1", NO_STATION} : get_station_name(id)
    \/ \E id \in {"S1", NO_STATION} : get_station_coordinates(id)
    \/ \E id \in {1, NO_REGION} : get_region_name(id)
    \/ \E id \in {1, NO_REGION} : get_region_coords(id)

SpecRegistry == Init /\ [][NextRegistry]_vars

-----------------------------------------------------------------------------
(* Shortest routes on a line of nearby stations: S1, S2 and S3 lie on the    *)
(* diagonal so close together that cutting the distances to ints makes the   *)
(* two short hops S1-S2-S3 (1 + 2) shorter than the direct edge S1-S3 (4)    *)

LineCoords(id) ==
    CASE id = "S1" -> <<0, 0>>
      [] id = "S2" -> <<1, 1>>
      [] id = "S3" -> <<3, 3>>
      [] id = "S4" -> <<6, 0>>

NextLine ==
    \/ \E id \in NextStation, a \in FirstFree : add_station(id, "Name", LineCoords(id), a)
    \/ \E t \in NextTrain, sl \in PathLists : add_train(t, sl)
    \/ nq < MaxQueries /\ \E to \in {"S3", "S4"} : route_shortest_distance("S1", to)

SpecLine == Init /\ [][NextLine]_vars

-----------------------------------------------------------------------------
(* Queries on a network with regions: S1, S2, S3 on their coordinates, the   *)
(* region 1 with any of S1 and S3 in it, two trains on lines, and each of    *)
(* the five queries from S1                                                  *)

NextFrame ==
    \/ \E id \in NextStation \ {"S4"}, a \in FirstFree :
           add_station(id, "Name", PathCoords(id), a)
    \/ add_region(1, "Region", Triangle)
    \/ \E id \in {"S1", "S3"} : add_station_to_region(id, 1)
    \/ \E t \in NextTrain, sl \in QueryLists : add_train(t, sl)
    \/ nq < MaxQueries /\ \E to \in {"S1", "S3"} : route_any("S1", to)
    \/ nq < MaxQueries /\ \E to \in {"S1", "S3"} : route_least_stations("S1", to)
    \/ nq < MaxQueries /\ \E to \in {"S1", "S3"} : route_shortest_distance("S1", to)
    \/ nq < MaxQueries /\ \E to \in {"S1", "S3"} : route_earliest_arrival("S1", to, 90)
    \/ nq < MaxQueries /\ route_with_cycle("S1")

SpecFrame == Init /\ [][NextFrame]_vars

-----------------------------------------------------------------------------
(* Everything cleared: S1 and S2, the region 1, the train T1 on a line       *)
(* between the stations, added also while it is registered, clear_all and    *)
(* clear_trains, and the count and the lookups. Trains are added while the   *)
(* network has fewer than MaxEdges edges                                     *)

NextClear ==
    \/ \E id \in NextStation \ {"S3", "S4"}, a \in FirstFree :
           add_station(id, "Name", PathCoords(id), a)
    \/ add_region(1, "Region", Triangle)
    \/ /\ EdgeCount(stations) < MaxEdges
       /\ \E sl \in QueryLists : add_train("T1", sl)
    \/ clear_all
    \/ clear_trains
    \/ station_count
    \/ get_station_name("S1")
    \/ get_station_coordinates("S1")
    \/ get_region_name(1)

SpecClear == Init /\ [][NextClear]_vars

-----------------------------------------------------------------------------
(* C1: add_train is all-or-nothing. If the train id is already registered or *)
(* some stop names an unregistered station, add_train returns false and      *)
(* neither the stations (edges, departures) nor the trains change.           *)

C1_Rejected(tid, sl) ==
    tid \in DOMAIN trains \/ \E i \in 1..Len(sl) : sl[i][1] \notin DOMAIN stations

C1_AddTrainAllOrNothing ==
    [][op'.name = "add_train" =>
          (C1_Rejected(op'.args[1], op'.args[2]) =>
               ret' = FALSE /\ stations' = stations /\ trains' = trains)]_vars

\* add_train was refused for a fresh id whose list has a registered stop
\* before an unregistered one
C1_Witness ==
    /\ op.name = "add_train"
    /\ ret = FALSE
    /\ op.args[1] \notin DOMAIN trains
    /\ Len(op.args[2]) >= 2
    /\ op.args[2][1][1] \in DOMAIN stations
    /\ \E i \in 2..Len(op.args[2]) : op.args[2][i][1] \notin DOMAIN stations

-----------------------------------------------------------------------------
(* C2: a successful add_train(id, stops) stores the train; every station     *)
(* keeps its edges and gets, appended in order, exactly one edge             *)
(* (t_i, t_i+1, s_i+1) per consecutive stop pair leaving it; the train is    *)
(* registered as departing s_i at t_i for every stop but the last, and no    *)
(* other departure changes.                                                  *)

C2_Effect(tid, sl) ==
    /\ DOMAIN trains' = DOMAIN trains \cup {tid}
    /\ trains'[tid] = [id |-> tid, stationtimes |-> sl]
    /\ \A t \in DOMAIN trains : trains'[t] = trains[t]
    /\ DOMAIN stations' = DOMAIN stations
    /\ \A s \in DOMAIN stations :
        /\ stations'[s].stations_to = stations[s].stations_to \o EdgesOf(sl, s)
        /\ Rest(stations'[s]) = Rest(stations[s])
        /\ DOMAIN stations'[s].departures =
               DOMAIN stations[s].departures
                   \cup {sl[i][2] : i \in {j \in 1..(Len(sl) - 1) : sl[j][1] = s}}
        /\ \A t \in DOMAIN stations'[s].departures :
               DeparturesAt(stations', s, t) =
                   DeparturesAt(stations, s, t)
                       \cup (IF \E i \in 1..(Len(sl) - 1) : sl[i] = <<s, t>> THEN {tid} ELSE {})

C2_AddTrainBuildsEdges ==
    [][(op'.name = "add_train" /\ ret' = TRUE) => C2_Effect(op'.args[1], op'.args[2])]_vars

\* a second train of three stops was added and left an edge parallel to an
\* edge of the first train, with other times
C2_Witness ==
    /\ op.name = "add_train"
    /\ ret = TRUE
    /\ Len(op.args[2]) = 3
    /\ Cardinality(DOMAIN trains) = 2
    /\ \E s \in DOMAIN stations :
         \E i, j \in 1..Len(stations[s].stations_to) :
            /\ i < j
            /\ stations[s].stations_to[i].to = stations[s].stations_to[j].to
            /\ stations[s].stations_to[i].dep # stations[s].stations_to[j].dep

-----------------------------------------------------------------------------
(* C8: route_least_stations(A, B), for known distinct endpoints with B       *)
(* reachable, returns a path, and its hop count (length minus one) is at     *)
(* most the hop count of every edge path from A to B.                        *)

C8_Applies(st, from, to) ==
    from \in DOMAIN st /\ to \in DOMAIN st /\ from # to /\ Reachable(st, from, to)

\* stated on the state the query leaves: a query rewrites d, de, color and pi
\* only, so the edges it searched are the edges of that state
C8_LeastStationsMinimal ==
    (op.name = "route_least_stations" /\ C8_Applies(stations, op.args[1], op.args[2])) =>
        /\ Len(ret) >= 2
        /\ \A n \in 0..Cardinality(DOMAIN stations) :
               op.args[2] \in Within(stations, op.args[1], n) => Len(ret) - 1 <= n

\* a two-hop answer on a network that also has a three-hop path S1 -> x -> y -> S4
C8_Witness ==
    /\ op.name = "route_least_stations"
    /\ op.args = <<"S1", "S4">>
    /\ Len(ret) = 3
    /\ \E x, y \in DOMAIN stations \ {"S1", "S4"} :
          /\ x # y
          /\ HasEdge(stations, "S1", x)
          /\ HasEdge(stations, x, y)
          /\ HasEdge(stations, y, "S4")

-----------------------------------------------------------------------------
(* C9: every non-empty, non-sentinel result of route_any(from, to) and of    *)
(* route_least_stations(from, to) starts with from, ends with to, and each   *)
(* two consecutive stations are joined by an outgoing edge of the earlier    *)
(* one, which a registered train provides.                                   *)

C9_IsPath(st, tr, from, to, r) ==
    /\ r[1][1] = from
    /\ r[Len(r)][1] = to
    /\ \A i \in 1..(Len(r) - 1) :
          HasEdge(st, r[i][1], r[i + 1][1]) /\ ProvidedByTrain(tr, r[i][1], r[i + 1][1])

C9_ResultIsEdgePath ==
    (op.name \in {"route_any", "route_least_stations"}
        /\ ret # <<>> /\ ret # NOT_FOUND_DISTANCE) =>
            C9_IsPath(stations, trains, op.args[1], op.args[2], ret)

\* route_any answered with a path of at least two hops on a network that has
\* an edge leading back to the start
C9_Witness ==
    /\ op.name = "route_any"
    /\ op.args = <<"S1", "S4">>
    /\ ret # NOT_FOUND_DISTANCE
    /\ Len(ret) >= 3
    /\ \E u \in DOMAIN stations \ {"S1"} : HasEdge(stations, u, "S1")

-----------------------------------------------------------------------------
(* C3: route_shortest_distance(from, to), for known distinct endpoints with  *)
(* to reachable, returns a path whose total distance, paired with the last   *)
(* station, is the least sum of edge distances over the simple edge paths    *)
(* from from to to; for S1(0,0), S2(3,4), S3(6,8) on one train it returns    *)
(* [(S1,0),(S2,5),(S3,10)].                                                  *)

C3_OneTrain ==
    /\ DOMAIN trains = {"T1"}
    /\ trains["T1"].stationtimes = <<<<"S1", 100>>, <<"S2", 100>>, <<"S3", 100>>>>

C3_ShortestDistanceMinimal ==
    (op.name = "route_shortest_distance"
        /\ op.args[1] \in DOMAIN stations /\ op.args[2] \in DOMAIN stations
        /\ op.args[1] # op.args[2]
        /\ Reachable(stations, op.args[1], op.args[2])) =>
            /\ ret # <<>>
            /\ ret[Len(ret)][2] =
                   Least(PathLengths(stations, op.args[1], op.args[2], {op.args[1]}))
            /\ (C3_OneTrain /\ op.args[2] = "S3") =>
                   ret = <<<<"S1", 0>>, <<"S2", 5>>, <<"S3", 10>>>>

-----------------------------------------------------------------------------
(* C7: route_with_cycle(A), for a known station A, returns a non-empty       *)
(* result exactly when a directed cycle, a self-loop and a cycle through A   *)
(* included, can be reached by following edges from A; on an acyclic         *)
(* network it returns the empty sequence.                                    *)

C7_CycleIffReachable ==
    (op.name = "route_with_cycle" /\ op.args[1] \in DOMAIN stations) =>
        ((ret # <<>>) <=> CycleReachable(stations, op.args[1]))

-----------------------------------------------------------------------------
(* C10: for known, distinct endpoints, route_any, route_least_stations and   *)
(* route_shortest_distance return the empty sequence if and only if to is    *)
(* not reachable from from by following outgoing edges.                      *)

C10_EmptyIffUnreachable ==
    (op.name \in {"route_any", "route_least_stations", "route_shortest_distance"}
        /\ op.args[1] \in DOMAIN stations /\ op.args[2] \in DOMAIN stations
        /\ op.args[1] # op.args[2]) =>
            ((ret = <<>>) <=> ~Reachable(stations, op.args[1], op.args[2]))

-----------------------------------------------------------------------------
(* C4: route_earliest_arrival(from, to, t0), for known distinct endpoints,   *)
(* returns a non-empty route whenever a time-respecting sequence of edges    *)
(* from from to to exists (the first edge departs at or after t0, every      *)
(* later edge at or after the arrival of the edge before it), and the time   *)
(* paired with to is the least arrival time at to over all such sequences.   *)

C4_Applies ==
    /\ op.name = "route_earliest_arrival"
    /\ op.args[1] \in DOMAIN stations /\ op.args[2] \in DOMAIN stations
    /\ op.args[1] # op.args[2]

C4_EarliestArrivalMinimal ==
    C4_Applies =>
        LET arrivals == ArrivalTimes(stations, op.args[1], op.args[2], op.args[3])
        IN  arrivals # {} =>
                /\ ret # <<>>
                /\ ret # NO_RETURN
                /\ ret[Len(ret)][1] = op.args[2]
                /\ ret[Len(ret)][2] = Least(arrivals)

-----------------------------------------------------------------------------
(* C5: route_earliest_arrival never uses an edge that departs before the     *)
(* arrival at its source: in every non-empty result for distinct endpoints   *)
(* consecutive entries (s_i, t_i), (s_i+1, t_i+1) are joined by an edge      *)
(* s_i -> s_i+1 that departs at t_i, with t_1 >= t0 and every later t_i at   *)
(* or after the arrival of the edge used on the hop before.                  *)

C5_NoEdgeBeforeArrival ==
    (C4_Applies /\ ret # <<>> /\ ret # NO_RETURN) =>
        HopsFeasible(stations, ret, 1, op.args[3])

-----------------------------------------------------------------------------
(* C6: with stations S1, S2, S3 and the single train T1 visiting S1@100,     *)
(* S2@110, S3@130, route_earliest_arrival(S1, S3, 90) returns                *)
(* [(S1,90),(S2,110),(S3,130)] as the claim has it; what it returns is       *)
(* [(S1,100),(S2,110),(S3,130)]: every station but the last is paired with   *)
(* the departure time of the edge taken there, S1 with 100 and not with the  *)
(* start time 90.                                                            *)

C6_Scenario ==
    /\ DOMAIN stations = {"S1", "S2", "S3"}
    /\ DOMAIN trains = {"T1"}
    /\ trains["T1"].stationtimes = <<<<"S1", 100>>, <<"S2", 110>>, <<"S3", 130>>>>
    /\ op.name = "route_earliest_arrival"
    /\ op.args = <<"S1", "S3", 90>>

\* the claim as written
C6_ScenarioReturnsStartTime ==
    C6_Scenario => ret = <<<<"S1", 90>>, <<"S2", 110>>, <<"S3", 130>>>>

\* the claim as amended
C6_ScenarioReturnsDepartureTimes ==
    C6_Scenario => ret = <<<<"S1", 100>>, <<"S2", 110>>, <<"S3", 130>>>>

\* the scenario has been queried and has answered with a route
C6_Witness == C6_Scenario /\ Len(ret) = 3

-----------------------------------------------------------------------------
(* C11: when fromid or toid names no registered station, route_any,          *)
(* route_least_stations and route_shortest_distance return exactly           *)
(* <<(NO_STATION, NO_DISTANCE)>> and route_earliest_arrival returns exactly  *)
(* <<(NO_STATION, NO_TIME)>>, never the empty sequence; route_with_cycle     *)
(* returns <<NO_STATION>> only when its start is unknown, and the empty      *)
(* sequence when no cycle can be reached from a known start.                 *)

\* the last operation was a route query with two endpoints, one of them unknown
C11_UnknownEndpoint ==
    /\ op.name \in {"route_any", "route_least_stations", "route_shortest_distance",
                    "route_earliest_arrival"}
    /\ (op.args[1] \notin DOMAIN stations \/ op.args[2] \notin DOMAIN stations)

C11_UnknownEndpointSentinels ==
    /\ (C11_UnknownEndpoint /\ op.name # "route_earliest_arrival") => ret = NOT_FOUND_DISTANCE
    /\ (C11_UnknownEndpoint /\ op.name = "route_earliest_arrival") => ret = NOT_FOUND_TIME
    /\ op.name = "route_with_cycle" =>
           /\ (ret = <<NO_STATION>>) <=> (op.args[1] \notin DOMAIN stations)
           /\ (op.args[1] \in DOMAIN stations /\ ~CycleReachable(stations, op.args[1])) =>
                  ret = <<>>

-----------------------------------------------------------------------------
(* C12: with fromid = toid naming a registered station, route_any,           *)
(* route_least_stations and route_shortest_distance return <<(from, 0)>> and *)
(* route_earliest_arrival returns <<(from, starttime)>>, whatever edges the  *)
(* network has, and without a search: no scratch field of any station is     *)
(* written.                                                                  *)

\* the step is a route query between a registered station and itself
C12_SameStation ==
    /\ nq' = nq + 1
    /\ op'.name \in {"route_any", "route_least_stations", "route_shortest_distance",
                     "route_earliest_arrival"}
    /\ op'.args[1] = op'.args[2]
    /\ op'.args[1] \in DOMAIN stations

C12_SameStationSingleEntry ==
    [][C12_SameStation =>
          /\ stations' = stations
          /\ ret' = << <<op'.args[1],
                         IF op'.name = "route_earliest_arrival" THEN op'.args[3] ELSE 0>> >>]_vars

\* S1 was asked for the earliest arrival at itself and for a route to itself
\* while it had an edge back to it and scratch fields left by an earlier query
C12_Witness ==
    /\ op.name \in {"route_earliest_arrival", "route_any"}
    /\ op.args[1] = "S1" /\ op.args[2] = "S1"
    /\ ret \in {<< <<"S1", 90>> >>, << <<"S1", 0>> >>}
    /\ nq = 2
    /\ "S2" \in DOMAIN stations
    /\ HasEdge(stations, "S1", "S2") /\ HasEdge(stations, "S2", "S1")
    /\ stations["S2"].pi = "S1"

-----------------------------------------------------------------------------
(* C13: each of the five route queries returns, for a fixed network and      *)
(* fixed arguments, the same result whatever route queries ran before it:    *)
(* the result is the one the query gives on stations whose scratch fields    *)
(* are as add_station left them.                                             *)

\* the registry with every scratch field as add_station leaves it
C13_FreshScratch(st) ==
    [s \in DOMAIN st |->
        [st[s] EXCEPT !.color = 0, !.d = INF_D, !.de = INF_D, !.pi = NULL]]

C13_HistoryIndependent ==
    LET fresh == C13_FreshScratch(stations)
    IN  /\ op.name = "route_any" =>
               ret = route_any_run(fresh, op.args[1], op.args[2]).result
        /\ op.name = "route_least_stations" =>
               ret = route_least_stations_run(fresh, op.args[1], op.args[2]).result
        /\ op.name = "route_with_cycle" =>
               ret = route_with_cycle_run(fresh, op.args[1]).result
        /\ op.name = "route_shortest_distance" =>
               ret = route_shortest_distance_run(fresh, addr, op.args[1], op.args[2]).result
        /\ op.name = "route_earliest_arrival" =>
               ret = route_earliest_arrival_run(fresh, addr, op.args[1], op.args[2],
                                                op.args[3]).result

\* route_any found a route of two edges on stations that an earlier query of
\* another kind had coloured and given times
C13_Witness ==
    /\ nq = 2
    /\ op.name = "route_any"
    /\ Len(ret) = 3
    /\ \E s \in DOMAIN stations : stations[s].color = 1

-----------------------------------------------------------------------------
(* C14: every route query terminates on every finite network built by        *)
(* add_station and add_train, networks with cycles, self-loops, edges back   *)
(* to the start and parallel edges included: the search loop ends and the    *)
(* walk along the predecessors ends, so the query returns.                   *)

C14_EveryQueryReturns ==
    op.name \in {"route_any", "route_least_stations", "route_with_cycle",
                 "route_shortest_distance", "route_earliest_arrival"} =>
        ret # NO_RETURN

-----------------------------------------------------------------------------
(* C15: edges persist until the trains are reset, and after clear_trains()   *)
(* no edge of a train added before remains: while no train is registered,    *)
(* every route query between two distinct registered stations returns the    *)
(* empty sequence.                                                           *)

C15_NoRouteWithoutTrains ==
    (/\ DOMAIN trains = {}
     /\ op.name \in {"route_any", "route_least_stations", "route_shortest_distance",
                     "route_earliest_arrival"}
     /\ op.args[1] \in DOMAIN stations /\ op.args[2] \in DOMAIN stations
     /\ op.args[1] # op.args[2]) =>
        ret = <<>>

-----------------------------------------------------------------------------
(* C16: whatever stop lists were passed to add_train, every outgoing edge of *)
(* every station joins two consecutive stops of some train that was added,   *)
(* with their two times, and its departure time is no later than its         *)
(* arrival time.                                                             *)

\* the edge e of station s joins two consecutive stops of a registered train
C16_FromConsecutiveStops(s, e) ==
    \E t \in DOMAIN trains :
        \E i \in 1..(Len(trains[t].stationtimes) - 1) :
            /\ trains[t].stationtimes[i] = <<s, e.dep>>
            /\ trains[t].stationtimes[i + 1] = <<e.to, e.arr>>

C16_EdgesInTimeOrder ==
    \A s \in DOMAIN stations :
        \A k \in 1..Len(stations[s].stations_to) :
            /\ C16_FromConsecutiveStops(s, stations[s].stations_to[k])
            /\ stations[s].stations_to[k].dep <= stations[s].stations_to[k].arr

-----------------------------------------------------------------------------
(* C17: add_subregion_to_region(child, parent) returns false and changes     *)
(* nothing if either id is unknown or child already has a parent; otherwise  *)
(* it returns true, sets child's parent to parent and adds child to parent's *)
(* children, changing nothing else. A parent link that is set is never       *)
(* changed by a later operation other than clear_all.                        *)

\* add_subregion_to_region(id, parentid) is refused on the regions rg
C17_Refused(rg, id, parentid) ==
    id \notin DOMAIN rg \/ parentid \notin DOMAIN rg \/ rg[id].parent # NO_REGION

\* the step from regions to regions' is the one a call that is not refused makes
C17_Linked(id, parentid) ==
    /\ DOMAIN regions' = DOMAIN regions
    /\ regions'[id].parent = parentid
    /\ regions'[parentid].subregions = regions[parentid].subregions \cup {id}
    /\ \A r \in DOMAIN regions :
           /\ r # id => regions'[r].parent = regions[r].parent
           /\ r # parentid => regions'[r].subregions = regions[r].subregions
           /\ regions'[r].id = regions[r].id /\ regions'[r].name = regions[r].name
           /\ regions'[r].coordinates = regions[r].coordinates

C17_ParentSetOnceOnly ==
    [][/\ op'.name = "add_subregion_to_region" =>
             /\ stations' = stations
             /\ IF C17_Refused(regions, op'.args[1], op'.args[2])
                THEN ret' = FALSE /\ regions' = regions
                ELSE ret' = TRUE /\ C17_Linked(op'.args[1], op'.args[2])
       /\ op'.name # "clear_all" =>
             \A r \in DOMAIN regions :
                 regions[r].parent # NO_REGION =>
                     r \in DOMAIN regions' /\ regions'[r].parent = regions[r].parent]_vars

\* a region that has a parent was offered another registered region as its
\* parent and kept the one it had
C17_Witness ==
    /\ op.name = "add_subregion_to_region"
    /\ ret = FALSE
    /\ op.args[1] \in DOMAIN regions /\ op.args[2] \in DOMAIN regions
    /\ regions[op.args[1]].parent \notin {NO_REGION, op.args[2]}
    /\ op.args[1] \notin regions[op.args[2]].subregions

-----------------------------------------------------------------------------
(* C18: on a hierarchy Country -> State -> City, common_parent_of_regions of *)
(* two Cities under the same State returns the State, and of a City with the *)
(* Country returns the Country: a region paired with its own ancestor gives  *)
(* that ancestor.                                                            *)

\* country is a root, state lies in country and city in state
C18_Hierarchy(country, state, city) ==
    /\ {country, state, city} \subseteq DOMAIN regions
    /\ regions[country].parent = NO_REGION
    /\ regions[state].parent = country
    /\ regions[city].parent = state

C18_CommonParentOnThreeLevels ==
    op.name = "common_parent_of_regions" =>
        \A country, state, city \in RegionIDs :
            C18_Hierarchy(country, state, city) =>
                /\ (op.args[1] = city /\ op.args[2] \in DOMAIN regions
                      /\ op.args[2] # city /\ regions[op.args[2]].parent = state) =>
                       ret = state
                /\ (op.args[1] = city /\ op.args[2] = country) => ret = country

-----------------------------------------------------------------------------
(* C19: on a hierarchy without a cycle, common_parent_of_regions(a, b)       *)
(* returns the first region of a's chain of ancestors, a itself not in it,   *)
(* that occurs in b's chain of ancestors, and NO_REGION if a or b is unknown *)
(* or the chains share no region; two regions with the same immediate parent *)
(* get that parent.                                                          *)

\* the first region of the sequence s that occurs in the sequence t, if any
C19_FirstShared(s, t) ==
    IF \E i \in 1..Len(s) : Occurs(s[i], t)
    THEN s[CHOOSE i \in 1..Len(s) :
               Occurs(s[i], t) /\ \A j \in 1..(i - 1) : ~Occurs(s[j], t)]
    ELSE NO_REGION

C19_NearestSharedAncestor ==
    (op.name = "common_parent_of_regions" /\ Acyclic(regions)) =>
        /\ (op.args[1] \notin DOMAIN regions \/ op.args[2] \notin DOMAIN regions) =>
               ret = NO_REGION
        /\ (op.args[1] \in DOMAIN regions /\ op.args[2] \in DOMAIN regions) =>
               /\ ret = C19_FirstShared(AncestorChain(regions, op.args[1]),
                                        AncestorChain(regions, op.args[2]))
               /\ (regions[op.args[1]].parent = regions[op.args[2]].parent) =>
                      ret = regions[op.args[1]].parent

\* the two regions have different parents, the chains were walked, and the
\* nearest shared ancestor is not the first region of a's chain
C19_Witness ==
    /\ op.name = "common_parent_of_regions"
    /\ Acyclic(regions)
    /\ op.args[1] \in DOMAIN regions /\ op.args[2] \in DOMAIN regions
    /\ regions[op.args[1]].parent # regions[op.args[2]].parent
    /\ ret # NO_REGION
    /\ ret # regions[op.args[1]].parent

-----------------------------------------------------------------------------
(* C20: station_in_regions(id) returns <<NO_REGION>> if the station is       *)
(* unknown and the empty sequence if the station has no region; otherwise,   *)
(* on a hierarchy without a cycle, the station's own region followed by each *)
(* successive parent up to the root, nearest first, each exactly once.       *)

C20_RegionsNearestFirst ==
    op.name = "station_in_regions" =>
        IF op.args[1] \notin DOMAIN stations THEN ret = <<NO_REGION>>
        ELSE IF stations[op.args[1]].region = NO_REGION THEN ret = <<>>
        ELSE Acyclic(regions) =>
                 /\ ret = <<stations[op.args[1]].region>>
                              \o AncestorChain(regions, stations[op.args[1]].region)
                 /\ \A i, j \in 1..Len(ret) : ret[i] = ret[j] => i = j
                 /\ regions[ret[Len(ret)]].parent = NO_REGION

\* the station lies in a region two levels below a root
C20_Witness ==
    /\ op.name = "station_in_regions"
    /\ op.args[1] \in DOMAIN stations
    /\ Acyclic(regions)
    /\ Len(ret) = 3

-----------------------------------------------------------------------------
(* C21: all_subregions_of_region(region) returns <<NO_REGION>> if the region *)
(* is unknown and the empty sequence if it has no children; otherwise, on a  *)
(* hierarchy without a cycle, it lists exactly the direct and indirect       *)
(* descendants of the region, each once and each after its own parent, and   *)
(* never the region itself.                                                  *)

C21_SubregionsInPreOrder ==
    op.name = "all_subregions_of_region" =>
        IF op.args[1] \notin DOMAIN regions THEN ret = <<NO_REGION>>
        ELSE IF regions[op.args[1]].subregions = {} THEN ret = <<>>
        ELSE Acyclic(regions) =>
                 /\ {ret[i] : i \in 1..Len(ret)} = Descendants(regions, op.args[1])
                 /\ \A i, j \in 1..Len(ret) : ret[i] = ret[j] => i = j
                 /\ ~Occurs(op.args[1], ret)
                 /\ \A i \in 1..Len(ret) :
                        \/ regions[ret[i]].parent = op.args[1]
                        \/ \E j \in 1..(i - 1) : ret[j] = regions[ret[i]].parent

\* the region has a child that has a child, and another child
C21_Witness ==
    /\ op.name = "all_subregions_of_region"
    /\ Acyclic(regions)
    /\ Len(ret) = 3
    /\ \E i \in 1..3 : regions[ret[i]].parent \notin {op.args[1], NO_REGION}
    /\ \E i, j \in 1..3 : i # j /\ regions[ret[i]].parent = regions[ret[j]].parent

-----------------------------------------------------------------------------
(* C22: after a successful add_station(id, name, xy) or add_region(id, name, *)
(* coords) the lookups by that id return exactly the inserted data; an add   *)
(* with an id that is registered returns false and leaves the stored name,   *)
(* coordinates, region, departures and edges as they were.                   *)

C22_AddThenLookup ==
    [][/\ op'.name = "add_station" =>
             IF op'.args[1] \in DOMAIN stations
             THEN ret' = FALSE /\ stations' = stations
             ELSE ret' = TRUE =>
                      /\ get_station_name_run(stations', op'.args[1]) = op'.args[2]
                      /\ get_station_coordinates_run(stations', op'.args[1]) = op'.args[3]
       /\ op'.name = "add_region" =>
             IF op'.args[1] \in DOMAIN regions
             THEN ret' = FALSE /\ regions' = regions
             ELSE ret' = TRUE =>
                      /\ get_region_name_run(regions', op'.args[1]) = op'.args[2]
                      /\ get_region_coords_run(regions', op'.args[1]) = op'.args[3]
       /\ op'.name = "get_station_name" => ret' = get_station_name_run(stations, op'.args[1])
       /\ op'.name = "get_station_coordinates" =>
             ret' = get_station_coordinates_run(stations, op'.args[1])
       /\ op'.name = "get_region_name" => ret' = get_region_name_run(regions, op'.args[1])
       /\ op'.name = "get_region_coords" => ret' = get_region_coords_run(regions, op'.args[1])]_vars

\* S1, in region 1 and with an edge and a departure, was added again under
\* another name and at another place, and kept what it had
C22_Witness ==
    /\ op.name = "add_station"
    /\ op.args[1] = "S1"
    /\ ret = FALSE
    /\ "S1" \in DOMAIN stations
    /\ stations["S1"].name # op.args[2] /\ op.args[2] # NO_NAME
    /\ stations["S1"].location # op.args[3] /\ op.args[3] # NO_COORD
    /\ stations["S1"].region = 1
    /\ Len(stations["S1"].stations_to) = 1
    /\ DOMAIN stations["S1"].departures # {}

-----------------------------------------------------------------------------
(* C27: creating a station or a region fails and leaves the registry as it   *)
(* was whenever the id is registered already or a required field is the      *)
(* absent sentinel: add_station rejects the id NO_STATION, the name NO_NAME   *)
(* and the coordinate NO_COORD, add_region rejects the id NO_REGION and the   *)
(* name NO_NAME; hence no region with the id NO_REGION is ever registered.    *)

\* add_station(id, name, xy) has to be refused on the stations st
C27_StationRefused(st, id, name, xy) ==
    id \in DOMAIN st \/ id = NO_STATION \/ name = NO_NAME \/ xy = NO_COORD

\* add_region(id, name, coords) has to be refused on the regions rg
C27_RegionRefused(rg, id, name) ==
    id \in DOMAIN rg \/ id = NO_REGION \/ name = NO_NAME

C27_AbsentFieldsRejected ==
    [][/\ (op'.name = "add_station"
             /\ C27_StationRefused(stations, op'.args[1], op'.args[2], op'.args[3])) =>
                 ret' = FALSE /\ stations' = stations /\ addr' = addr
       /\ (op'.name = "add_region" /\ C27_RegionRefused(regions, op'.args[1], op'.args[2])) =>
                 ret' = FALSE /\ regions' = regions
       /\ NO_REGION \notin DOMAIN regions']_vars

-----------------------------------------------------------------------------
(* C30: in every reachable state the parent links and the child sets of the  *)
(* regions agree: for all registered regions c and p, c is in the subregions *)
(* of p if and only if the parent of c is p; and every parent link other     *)
(* than NO_REGION and every member of a child set names a registered region. *)

C30_ParentsAndChildrenAgree ==
    /\ \A c, p \in DOMAIN regions :
           (c \in regions[p].subregions) <=> (regions[c].parent = p)
    /\ \A c \in DOMAIN regions :
           /\ regions[c].parent # NO_REGION => regions[c].parent \in DOMAIN regions
           /\ regions[c].subregions \subseteq DOMAIN regions

-----------------------------------------------------------------------------
(* C26: the one-sided check of add_subregion_to_region lets a cycle of       *)
(* parents be installed: a registered region without a parent is given any   *)
(* registered region as its parent, also itself and also a region that lies  *)
(* below it, so add_subregion_to_region(B, A) and then (A, B) both return    *)
(* true and leave A.parent = B and B.parent = A; the hierarchy need not be a *)
(* forest.                                                                   *)

\* in the regions rg, making parentid the parent of id closes a cycle of parents
C26_ClosesCycle(rg, id, parentid) ==
    /\ id \in DOMAIN rg /\ parentid \in DOMAIN rg
    /\ rg[id].parent = NO_REGION
    /\ (parentid = id \/ id \in Above(rg, parentid, Cardinality(DOMAIN rg)))

C26_CycleInstalled ==
    [][(op'.name = "add_subregion_to_region"
           /\ C26_ClosesCycle(regions, op'.args[1], op'.args[2])) =>
              /\ ret' = TRUE
              /\ regions'[op'.args[1]].parent = op'.args[2]
              /\ op'.args[1] \in regions'[op'.args[2]].subregions
              /\ ~Acyclic(regions')]_vars

\* two regions are each the parent of the other, the second link just made
C26_Witness ==
    /\ op.name = "add_subregion_to_region"
    /\ ret = TRUE
    /\ op.args[1] # op.args[2]
    /\ regions[op.args[1]].parent = op.args[2]
    /\ regions[op.args[2]].parent = op.args[1]

-----------------------------------------------------------------------------
(* C23: route_any(from, to) pairs every station of the path it returns with  *)
(* the distance travelled along the path up to that station: the first entry *)
(* is (from, 0), and the distance of every later entry is that of the entry  *)
(* before it plus distance_between_points of the two stations, also when an  *)
(* edge of the network leads back to from.                                   *)

C23_CumulativeDistances ==
    (op.name = "route_any"
        /\ op.args[1] \in DOMAIN stations /\ op.args[2] \in DOMAIN stations
        /\ ret # <<>>) =>
        /\ ret[1] = <<op.args[1], 0>>
        /\ \A i \in 2..Len(ret) :
               ret[i][2] = ret[i - 1][2]
                             + distance_between_points(stations[ret[i - 1][1]].location,
                                                       stations[ret[i][1]].location)

-----------------------------------------------------------------------------
(* C24: whenever route_with_cycle(from) returns a non-empty result, the      *)
(* result starts with from, every two consecutive stations of it are joined  *)
(* by an edge, and its last station is the repeated one: it occurs exactly   *)
(* twice in the result, every other station once.                            *)

\* the number of places of the sequence s that hold x
C24_Count(s, x) == Cardinality({i \in 1..Len(s) : s[i] = x})

C24_ResultClosesCycle ==
    (op.name = "route_with_cycle" /\ op.args[1] \in DOMAIN stations /\ ret # <<>>) =>
        /\ ret[1] = op.args[1]
        /\ \A i \in 1..(Len(ret) - 1) : HasEdge(stations, ret[i], ret[i + 1])
        /\ C24_Count(ret, ret[Len(ret)]) = 2
        /\ \A i \in 1..Len(ret) : ret[i] # ret[Len(ret)] => C24_Count(ret, ret[i]) = 1

-----------------------------------------------------------------------------
(* C25: route_shortest_distance relaxes and requeues: at every pop of the    *)
(* priority set, the priority of every entry (the entry of from, inserted    *)
(* with priority 0 before any relaxation, aside) equals the current de of    *)
(* its station, and the station popped has the least current de of the set.  *)

\* the entries of Q other than the one of fromid agree with the stations
C25_PrioritiesCurrent(st, Q, fromid) ==
    \A e \in Q : e[2] # fromid => e[1] = st[e[2]].de

\* the station of entry e has the least current de among the stations of Q
C25_PopsLeast(st, Q, e, fromid) ==
    \A f \in Q : (e[2] # fromid /\ f[2] # fromid) => st[e[2]].de <= st[f[2]].de

RECURSIVE C25_EveryPop(_, _, _, _, _)
\* the two conditions at every pop of the while loop of route_shortest_distance
C25_EveryPop(st, Q, ad, fromid, g) ==
    IF Q = {} THEN TRUE
    ELSE LET e == set_begin(Q, ad)
             u == e[2]
         IN  /\ C25_PrioritiesCurrent(st, Q, fromid)
             /\ C25_PopsLeast(st, Q, e, fromid)
             /\ IF u = g THEN TRUE
                ELSE LET r == route_shortest_distance_for(st, Q \ {e}, u, 1, g)
                     IN  C25_EveryPop(r.st, r.Q, ad, fromid, g)

C25_RelaxAndRequeue ==
    [][(op'.name = "route_shortest_distance"
           /\ op'.args[1] \in DOMAIN stations /\ op'.args[2] \in DOMAIN stations
           /\ op'.args[1] # op'.args[2]) =>
           C25_EveryPop(route_shortest_distance_reset(stations, op'.args[1]),
                        {<<0, op'.args[1]>>}, addr, op'.args[1], op'.args[2])]_vars

-----------------------------------------------------------------------------
(* C28: a route query changes nothing but scratch fields. Over any call of   *)
(* route_any, route_least_stations, route_with_cycle, route_shortest_distance *)
(* or route_earliest_arrival, whatever it returns, the same stations stay    *)
(* registered and each keeps its id, name, coordinate, region, departures    *)
(* and outgoing edges; the trains and the regions stay as they were. Only    *)
(* color, d, de and pi may differ.                                           *)

C28_RouteQueries ==
    {"route_any", "route_least_stations", "route_with_cycle",
     "route_shortest_distance", "route_earliest_arrival"}

\* the fields of a station node that are not scratch fields of the queries
C28_Kept(s) ==
    [id |-> s.id, name |-> s.name, location |-> s.location, region |-> s.region,
     departures |-> s.departures, stations_to |-> s.stations_to]

C28_QueriesChangeScratchOnly ==
    [][op'.name \in C28_RouteQueries =>
           /\ DOMAIN stations' = DOMAIN stations
           /\ \A s \in DOMAIN stations : C28_Kept(stations'[s]) = C28_Kept(stations[s])
           /\ trains' = trains
           /\ regions' = regions]_vars

\* a query found a route of two edges on a network of two trains whose
\* stations lie in a region, and left scratch fields that differ from the
\* ones add_station wrote
C28_Witness ==
    /\ op.name \in C28_RouteQueries
    /\ Len(ret) = 3
    /\ Cardinality(DOMAIN trains) = 2
    /\ 1 \in DOMAIN regions
    /\ \E s \in DOMAIN stations : stations[s].region = 1
    /\ \E s \in DOMAIN stations : stations[s].pi # NULL /\ stations[s].d # INF_D

-----------------------------------------------------------------------------
(* C29: clear_all empties the station and the region registries and leaves   *)
(* the trains. After clear_all station_count() is 0 and the lookups of the   *)
(* stations and regions that were registered return the absent sentinels,    *)
(* and the trains are the same as before. add_train with a registered train  *)
(* id returns false and changes nothing, also when every stop is registered  *)
(* (again); only clear_trains takes a train id out of the registry, and      *)
(* add_train with an id that is not registered and stops that are all        *)
(* registered returns true.                                                  *)

C29_ClearAllKeepsTrains ==
    [][/\ op'.name = "clear_all" =>
              /\ DOMAIN stations' = {} /\ DOMAIN regions' = {}
              /\ station_count_run(stations') = 0
              /\ \A id \in DOMAIN stations :
                     /\ get_station_name_run(stations', id) = NO_NAME
                     /\ get_station_coordinates_run(stations', id) = NO_COORD
              /\ \A id \in DOMAIN regions :
                     /\ get_region_name_run(regions', id) = NO_NAME
                     /\ get_region_coords_run(regions', id) = <<NO_COORD>>
              /\ trains' = trains
       /\ op'.name # "clear_trains" => DOMAIN trains \subseteq DOMAIN trains'
       /\ (op'.name = "add_train" /\ op'.args[1] \in DOMAIN trains) =>
              ret' = FALSE /\ trains' = trains /\ stations' = stations
       /\ (op'.name = "add_train" /\ op'.args[1] \notin DOMAIN trains
              /\ all_stops_known(stations, op'.args[2])) =>
              ret' = TRUE /\ op'.args[1] \in DOMAIN trains']_vars

\* add_train of the registered T1 was refused on stations that were added
\* again after clear_all: both stops of T1 are registered, and no station
\* has an edge or a departure
C29_Witness ==
    /\ op.name = "add_train" /\ ret = FALSE
    /\ op.args[1] \in DOMAIN trains
    /\ all_stops_known(stations, op.args[2])
    /\ all_stops_known(stations, trains[op.args[1]].stationtimes)
    /\ \A s \in DOMAIN stations :
           stations[s].stations_to = <<>> /\ DOMAIN stations[s].departures = {}

====
